---------------------------- MODULE Spec2Model ----------------------------
(***************************************************************************)
(* A model of MeetKitAI's AIProjectBrigade_Enhanced.py: the response       *)
(* cache, the retry decorator, the JSON parser of the agents and the       *)
(* orchestrator's phases.                                                  *)
(***************************************************************************)
EXTENDS Integers, Sequences, FiniteSets, TLC

VARIABLES
    cache,      \* ResponseCache.cache: the dict, as its items in insertion order
    lock,       \* ResponseCache.lock: "free" or "held"
    inset,      \* the set() calls that are between their eviction and their store
    now,        \* the value datetime.now() returns, in seconds
    stored,     \* history: per (prompt, model), the last set() still in the cache
    lastGet,    \* what the get() that has just returned was asked and returned
    lastSet     \* whether the set() that has just returned found the dict full

cacheVars == <<cache, lock, inset, now, stored, lastGet, lastSet>>

VARIABLES
    max_retries,    \* retry_with_backoff(max_retries=...)
    base_delay,     \* retry_with_backoff(base_delay=...), in seconds
    rpc,            \* where the wrapper is: "off", "try", "sleep", "returned", "raised"
    attempt,        \* the loop variable of the wrapper
    last_exception, \* the wrapper's last_exception
    outcomes,       \* history: what each invocation of func did, in order
    sleeps,         \* history: the delays given to time.sleep, in order
    result          \* what the wrapper returned or raised

retryVars == <<max_retries, base_delay, rpc, attempt, last_exception, outcomes,
               sleeps, result>>

VARIABLES
    response_arg,   \* _parse_json's argument response, as the sequence of its characters
    ppc,        \* "off", "call" (before _parse_json) or "done" (after it)
    parsed      \* what _parse_json returned

parseVars == <<response_arg, ppc, parsed>>

VARIABLES
    parallel,           \* config execution.parallel
    cache_responses,    \* config execution.cache_responses
    opc,                \* where create_project is
    agent,              \* per agent, its call in progress: state, attempt, output
    results,            \* _parallel_code_generation's results, in insertion order
    status,             \* context.status
    files_created,      \* context.files_created
    requirements,       \* context.requirements
    architecture,       \* context.architecture
    metrics,            \* context.metrics
    disk,               \* the files under project_dir: path -> content
    config_file,        \* .project-config.json: "absent" or what was dumped
    raised,             \* the exception create_project raised, or None
    started,            \* history: the phases given to progress.start_phase
    finished,           \* history: the phases that ended without an exception
    invoked,            \* history: the agents invoked, in order
    acc                 \* history: who touched which object in the fan-out under way

orchVars == <<parallel, cache_responses, opc, agent, results, status, files_created,
              requirements, architecture, metrics, disk, config_file, raised,
              started, finished, invoked, acc>>

(* Variables of the later sections *)
VARIABLES
    client,     \* EnhancedBaseAgent.client: whether the OpenAI client was built
    lpc,        \* where _call_llm is: "off", "idle" (not called) or "api" (past the cache)
    pending,    \* the call of _call_llm that is past the cache
    lastCall    \* what the _call_llm that has just ended was asked and did

llmVars == <<client, lpc, pending, lastCall>>

VARIABLES
    description,    \* suggest_profile's argument, as the sequence of its characters
    suggested       \* what suggest_profile returned, None before it has

profVars == <<description, suggested>>

VARIABLES
    ENHANCED_MODE,  \* the global the orchestrator tests: "undefined", "True" or "False"
    profile_name,   \* create_project's argument profile_name
    plugin_registry,    \* the names get_all_agents() returns
    agents,         \* the keys of self.agents
    bpc,            \* where the orchestrator is
    called          \* history: the agents create_project has invoked

brigVars == <<ENHANCED_MODE, profile_name, plugin_registry, agents, bpc, called>>

VARIABLES
    report,         \* the ValidationReport: results and the four counters
    dir_exists,     \* os.path.exists(project_dir)
    post_checks,    \* ValidationPipeline.post_checks, in registration order
    vpc,            \* "off", "idle", "checks", "reported" or "aborted"
    executed,       \* history: the checks run_post_checks has called, in order
    quality_gate,   \* run_validation's argument quality_gate, None before the call
    gate_name,      \* the name of the gate that was evaluated
    passed_gate     \* what gate.evaluate(report) returned, None before it has

valVars == <<report, dir_exists, post_checks, vpc, executed, quality_gate, gate_name, passed_gate>>

VARIABLES
    registry,       \* _PLUGIN_REGISTRY: a dict, as its (name, class) items in insertion order
    held,           \* the map a caller got from get_all_agents, if it has got one
    registrations,  \* history: the (name, class) pairs register_agent has registered, in order
    gpc             \* "off", or "loaded" once the plugins module is imported

plugVars == <<registry, held, registrations, gpc>>

VARIABLES
    plugin,     \* the PluginBase object: status, tasks_completed, last_run, errors
    runpc,      \* where run is: "off", "idle" (no run under way) or "process"
    task_arg,   \* the task of the run under way
    lastRun,    \* history: how the run that has just ended ended, and the object before it
    runs        \* history: the number of calls of run

baseVars == <<plugin, runpc, task_arg, lastRun, runs>>

VARIABLES
    HOOKS,          \* _HOOKS: per hook name, the functions registered, in order
    hpc,            \* where run_hooks is: "off", "idle", "loop", "returned" or "escaped"
    hook_arg,       \* run_hooks's argument hook_name
    hook_results,   \* run_hooks's list results
    hook_calls,     \* history: what each hook called by this run_hooks did, in order
    hook_raised     \* the exception that left run_hooks or register_hook, or None

hookVars == <<HOOKS, hpc, hook_arg, hook_results, hook_calls, hook_raised>>

VARIABLES
    heal_file,      \* process_file's arguments: the extension of file_path and the content
    heal_pc,        \* where process_file is: "off", "idle", "heal" or "returned"
    heal_out,       \* what process_file returned, None before it has
    heal_llm,       \* history: the calls of the remote model this process_file made
    heal_count      \* history: the number of calls of process_file

healVars == <<heal_file, heal_pc, heal_out, heal_llm, heal_count>>

VARIABLES
    V4_MODE,        \* whether git_ops and repair could be imported
    save_pc,        \* where _save_code_files is: "off", "idle", "loop" or "returned"
    code_items,     \* the items of code_dict not yet handled, in order
    written,        \* the files written by this _save_code_files: path -> content
    save_created,   \* the list created
    healer_calls    \* history: the calls of healer.process_file, with what each returned

saveVars == <<V4_MODE, save_pc, code_items, written, save_created, healer_calls>>

VARIABLES
    cb_files,       \* ContextBuilder.files, each file by the lengths of its parts
    cb_chunks,      \* ContextBuilder.chunks
    cb_pc,          \* where build_chunks is: "off", "idle", "loop" or "returned"
    cb_size,        \* build_chunks's argument chunk_size
    cb_current,     \* current_content (its length), current_files and current_tokens
    cb_chunk_num,   \* chunk_num
    cb_index        \* the number of files the loop has handled

ctxVars == <<cb_files, cb_chunks, cb_pc, cb_size, cb_current, cb_chunk_num, cb_index>>

\* The variables of the later sections.
extVars == <<llmVars, profVars, brigVars, valVars, plugVars, baseVars, hookVars, healVars, saveVars, ctxVars>>

\* The variables of the later sections other than those of llmVars.
othersOf_llm == <<profVars, brigVars, valVars, plugVars, baseVars, hookVars, healVars, saveVars, ctxVars>>

\* The variables of the later sections other than those of profVars.
othersOf_prof == <<llmVars, brigVars, valVars, plugVars, baseVars, hookVars, healVars, saveVars, ctxVars>>

\* The variables of the later sections other than those of brigVars.
othersOf_brig == <<llmVars, profVars, valVars, plugVars, baseVars, hookVars, healVars, saveVars, ctxVars>>

\* The variables of the later sections other than those of valVars.
othersOf_val == <<llmVars, profVars, brigVars, plugVars, baseVars, hookVars, healVars, saveVars, ctxVars>>

\* The variables of the later sections other than those of plugVars.
othersOf_plug == <<llmVars, profVars, brigVars, valVars, baseVars, hookVars, healVars, saveVars, ctxVars>>

\* The variables of the later sections other than those of baseVars.
othersOf_base == <<llmVars, profVars, brigVars, valVars, plugVars, hookVars, healVars, saveVars, ctxVars>>

\* The variables of the later sections other than those of hookVars.
othersOf_hook == <<llmVars, profVars, brigVars, valVars, plugVars, baseVars, healVars, saveVars, ctxVars>>

\* The variables of the later sections other than those of healVars.
othersOf_heal == <<llmVars, profVars, brigVars, valVars, plugVars, baseVars, hookVars, saveVars, ctxVars>>

\* The variables of the later sections other than those of saveVars.
othersOf_save == <<llmVars, profVars, brigVars, valVars, plugVars, baseVars, hookVars, healVars, ctxVars>>

\* The variables of the later sections other than those of ctxVars.
othersOf_ctx == <<llmVars, profVars, brigVars, valVars, plugVars, baseVars, hookVars, healVars, saveVars>>

(* End of the variables of the later sections *)
vars == <<cacheVars, retryVars, parseVars, orchVars, extVars>>

(***************************************************************************)
(* Bounds of the model.                                                    *)
(***************************************************************************)
max_size == 2       \* ResponseCache(max_size=...), scaled down
ttl == 2            \* ResponseCache(ttl=...), in seconds, scaled down
MaxTime == 3        \* the clock runs from 0 to MaxTime
MaxRetries == 3     \* max_retries is drawn from 0 .. MaxRetries
MaxBaseDelay == 3   \* base_delay is drawn from 1 .. MaxBaseDelay

None == "None"
Prompts == {"p", "b:p"}
Models == {"a", "a:b"}
Responses == {"r1", "r2"}
Pairs == Prompts \X Models

(***************************************************************************)
(* retry_with_backoff                                                      *)
(***************************************************************************)
Values == {"v1", "v2"}          \* what func may return
Exceptions == {"e1", "e2"}      \* what func may raise
TypeError == "TypeError"        \* raise None

\* The retry parameters _call_llm is decorated with.
CallLlmRetries == 3
CallLlmBaseDelay == 2

\* for attempt in range(max_retries)
InRange(n) == n < max_retries

\* if attempt < max_retries - 1
SleepsAfter(n) == n < max_retries - 1

FixedDelay(n) == base_delay

\* delay = base_delay * (2 ** attempt)
Delay(n) == base_delay * (2 ^ n)

KeepFirst(e) == IF last_exception = None THEN e ELSE last_exception

\* last_exception = e
Caught(e) == e

RetryOff ==
    /\ max_retries = 0
    /\ base_delay = 0
    /\ rpc = "off"
    /\ attempt = 0
    /\ last_exception = None
    /\ outcomes = <<>>
    /\ sleeps = <<>>
    /\ result = None

\* A call of the wrapper, up to its first invocation of func.
RetryInit ==
    /\ max_retries \in 0 .. MaxRetries
    /\ base_delay \in 1 .. MaxBaseDelay
    /\ rpc = "try"
    /\ attempt = 0
    /\ last_exception = None
    /\ outcomes = <<>>
    /\ sleeps = <<>>
    /\ result = None

\* range(max_retries) is empty: raise last_exception, which is None.
Exhausted ==
    /\ rpc = "try"
    /\ ~InRange(attempt)
    /\ rpc' = "raised"
    /\ result' = IF last_exception = None THEN TypeError ELSE last_exception
    /\ UNCHANGED <<max_retries, base_delay, attempt, last_exception, outcomes, sleeps>>
    /\ UNCHANGED <<cacheVars, parseVars, orchVars, extVars>>

\* return func(*args, **kwargs), func returning v.
InvokeReturns(v) ==
    /\ rpc = "try"
    /\ InRange(attempt)
    /\ outcomes' = Append(outcomes, [ok |-> TRUE, val |-> v])
    /\ rpc' = "returned"
    /\ result' = v
    /\ UNCHANGED <<max_retries, base_delay, attempt, last_exception, sleeps>>
    /\ UNCHANGED <<cacheVars, parseVars, orchVars, extVars>>

\* func(*args, **kwargs) raising e: the except clause.
InvokeRaises(e) ==
    /\ rpc = "try"
    /\ InRange(attempt)
    /\ outcomes' = Append(outcomes, [ok |-> FALSE, val |-> e])
    /\ last_exception' = Caught(e)
    /\ IF SleepsAfter(attempt)
       THEN rpc' = "sleep" /\ UNCHANGED <<attempt, result>>
       ELSE /\ attempt' = attempt + 1
            /\ IF InRange(attempt + 1)
               THEN rpc' = "try" /\ UNCHANGED result
               ELSE rpc' = "raised" /\ result' = last_exception'   \* raise last_exception
    /\ UNCHANGED <<max_retries, base_delay, sleeps>>
    /\ UNCHANGED <<cacheVars, parseVars, orchVars, extVars>>

\* time.sleep(delay), and the next turn of the loop.
Sleep ==
    /\ rpc = "sleep"
    /\ sleeps' = Append(sleeps, Delay(attempt))
    /\ attempt' = attempt + 1
    /\ rpc' = "try"
    /\ UNCHANGED <<max_retries, base_delay, last_exception, outcomes, result>>
    /\ UNCHANGED <<cacheVars, parseVars, orchVars, extVars>>

NextRetry ==
    \/ \E v \in Values : InvokeReturns(v)
    \/ \E e \in Exceptions : InvokeRaises(e)
    \/ Sleep
    \/ Exhausted

(***************************************************************************)
(* EnhancedBaseAgent._parse_json                                           *)
(***************************************************************************)
IsSpace(ch) == ch \in {" ", "\n"}

RECURSIVE lstrip(_)
lstrip(s) == IF s # <<>> /\ IsSpace(Head(s)) THEN lstrip(Tail(s)) ELSE s

RECURSIVE rstrip(_)
rstrip(s) ==
    IF s # <<>> /\ IsSpace(s[Len(s)]) THEN rstrip(SubSeq(s, 1, Len(s) - 1)) ELSE s

\* str.strip()
strip(s) == rstrip(lstrip(s))

\* str.startswith(prefix)
startswith(s, prefix) == Len(s) >= Len(prefix) /\ SubSeq(s, 1, Len(prefix)) = prefix

\* str.endswith(suffix)
endswith(s, suffix) ==
    Len(s) >= Len(suffix) /\ SubSeq(s, Len(s) - Len(suffix) + 1, Len(s)) = suffix

\* The back quote, written BQ: a fence is three of them.
BQ == "bq"
Fence == <<BQ, BQ, BQ>>
FenceJson == Fence \o <<"j", "s", "o", "n">>

\* if response.startswith(fence + "json"): response = response[7:]
\* elif response.startswith(fence): response = response[3:]
DropOpeningFence(s) ==
    IF startswith(s, FenceJson) THEN SubSeq(s, Len(FenceJson) + 1, Len(s))
    ELSE IF startswith(s, Fence) THEN SubSeq(s, Len(Fence) + 1, Len(s))
    ELSE s

\* if response.endswith(fence): response = response[:-3]
DropClosingFence(s) ==
    IF endswith(s, Fence) THEN SubSeq(s, 1, Len(s) - Len(Fence)) ELSE s

\* The local variable response when json.loads is called.
Cleaned(s) == DropClosingFence(DropOpeningFence(strip(s)))

\* json.loads on the texts of the model: white space, then an empty object with
\* white space inside or an integer of the digit 1, then white space.
IsJsonValue(s) ==
    \/ Len(s) >= 1 /\ \A i \in DOMAIN s : s[i] = "1"
    \/ /\ Len(s) >= 2
       /\ s[1] = "{"
       /\ s[Len(s)] = "}"
       /\ \A i \in 2 .. Len(s) - 1 : IsSpace(s[i])

JsonLoads(s) == IsJsonValue(strip(s))

\* _parse_json(response): the decoded value (kept as the text it was decoded from)
\* or, on json.JSONDecodeError, {"raw_response": response}.
ParseJsonResult(s) ==
    LET r == Cleaned(s)
    IN  IF JsonLoads(strip(r))
        THEN [kind |-> "json", text |-> strip(r)]
        ELSE [kind |-> "fallback", text |-> r]

\* The responses of the model: white space, an opening fence, white space, a body,
\* white space, a closing fence, white space, each present or not.
Spaces == {<<>>, <<" ">>, <<"\n">>}
OpeningFences == {<<>>, Fence, FenceJson}
ClosingFences == {<<>>, Fence}
Bodies == {<<>>, <<"{", "}">>, <<"{", " ", "}">>, <<"1">>, <<"{">>, <<"x">>, <<"1", " ", "x">>}
ResponseTexts ==
    {a \o f \o b \o t \o c \o g \o d :
        a \in Spaces, f \in OpeningFences, b \in {<<>>, <<"\n">>}, t \in Bodies,
        c \in {<<>>, <<"\n">>}, g \in ClosingFences, d \in Spaces}

ParseOff ==
    /\ response_arg = <<>>
    /\ ppc = "off"
    /\ parsed = [kind |-> "none", text |-> <<>>]

ParseInit ==
    /\ response_arg \in ResponseTexts
    /\ ppc = "call"
    /\ parsed = [kind |-> "none", text |-> <<>>]

\* EnhancedBaseAgent._parse_json(response)
ParseJson ==
    /\ ppc = "call"
    /\ parsed' = ParseJsonResult(response_arg)
    /\ ppc' = "done"
    /\ UNCHANGED response_arg
    /\ UNCHANGED <<cacheVars, retryVars, orchVars, extVars>>

NextParse == ParseJson

(***************************************************************************)
(* EnhancedOrchestrator                                                    *)
(***************************************************************************)
\* self.agents, by the phase that invokes each.
CodeAgents == <<"FrontendAI", "BackendAI", "DataAI">>
SequentialAgents == <<"BackendAI", "FrontendAI", "DataAI">>
CodeAgentSet == {CodeAgents[i] : i \in DOMAIN CodeAgents}
Agents == CodeAgentSet \cup
          {"ProjectLeadAI", "TechArchitectAI", "DevOpsAI", "PresentationAI", "EvaluationAI"}

\* The agent each phase of create_project invokes on the calling thread.
PhaseAgent(n) ==
    CASE n = 2 -> "ProjectLeadAI"
      [] n = 3 -> "TechArchitectAI"
      [] n = 5 -> "DevOpsAI"
      [] n = 6 -> "PresentationAI"
      [] n = 7 -> "EvaluationAI"

PhaseOf(a) ==
    IF a \in CodeAgentSet THEN 4 ELSE CHOOSE n \in {2, 3, 5, 6, 7} : PhaseAgent(n) = a

\* The subdirectory _parallel_code_generation saves each code agent's files in.
Subdirectory(a) ==
    CASE a = "FrontendAI" -> <<"10_Code", "Frontend">>
      [] a = "BackendAI" -> <<"10_Code", "Backend">>
      [] a = "DataAI" -> <<"10_Code", "Backend", "data">>
      [] OTHER -> <<>>

\* _create_structure's list; a path is the sequence of its components.
Structure ==
    << <<"01_Proposal.md">>, <<"02_Project_Report.md">>, <<"03_Architecture.md">>,
       <<"04_SRS.md">>, <<"05_PPT.md">>, <<"06_Demo.md">>, <<"07_Testing.md">>,
       <<"08_Risk_and_Security.md">>, <<"09_Assets", "Diagrams", ".gitkeep">>,
       <<"09_Assets", "DataSets", ".gitkeep">>, <<"09_Assets", "Screenshots", ".gitkeep">>,
       <<"10_Code", "Frontend", ".gitkeep">>, <<"10_Code", "Backend", ".gitkeep">>,
       <<"10_Code", "AI_Agents", ".gitkeep">>, <<"10_Code", "Scripts", ".gitkeep">> >>

\* len(content) > 10
MinContent == 10

\* The texts the remote model may answer with, by what _parse_json and
\* _save_code_files make of them.
ResponseKinds == {"dict", "list", "badpath", "malformed", "escape"}

\* The answers told apart per agent: what the agents of phases 2, 3 and 7 return
\* is kept in the context and never saved, so one answer stands for all of theirs.
\* BackendAI may also name a file under its data directory, where DataAI saves.
KindsOf(a) ==
    IF a = "BackendAI" THEN ResponseKinds \cup {"nested"}
    ELSE IF a \in {"FrontendAI", "DataAI"} THEN ResponseKinds
    ELSE IF a \in {"DevOpsAI", "PresentationAI"} THEN {"dict", "badpath", "escape"}
    ELSE {"dict"}

\* What _parse_json returns for each answer: a dict as its items in order, each
\* content with its length, or a value that is no dict.  A malformed answer
\* comes back as the fallback dict with the one key raw_response.
Parsed(a, kind) ==
    CASE kind = "dict" ->
            [isdict |-> TRUE,
             items |-> << [path |-> <<"main.py">>, content |-> [by |-> a, len |-> 40]],
                          [path |-> <<"notes.txt">>, content |-> [by |-> a, len |-> 10]] >>]
      [] kind = "badpath" ->
            [isdict |-> TRUE,
             items |-> << [path |-> <<"app.py">>, content |-> [by |-> a, len |-> 40]],
                          [path |-> <<>>, content |-> [by |-> a, len |-> 40]] >>]
      [] kind = "escape" ->
            [isdict |-> TRUE,
             items |-> << [path |-> <<"/", "tmp", "evil.py">>, content |-> [by |-> a, len |-> 40]],
                          [path |-> <<"..", "..", "..", "..", "evil.py">>,
                           content |-> [by |-> a, len |-> 40]] >>]
      [] kind = "nested" ->
            [isdict |-> TRUE,
             items |-> << [path |-> <<"data", "main.py">>, content |-> [by |-> a, len |-> 40]] >>]
      [] kind = "malformed" ->
            [isdict |-> TRUE,
             items |-> << [path |-> <<"raw_response">>, content |-> [by |-> a, len |-> 40]] >>]
      [] OTHER -> [isdict |-> FALSE, items |-> <<>>]

IsProperPrefix(p, q) == Len(p) < Len(q) /\ SubSeq(q, 1, Len(p)) = p

\* A path is absolute when it begins at the root "/"; any other path is taken
\* from project_dir.
IsAbsolute(p) == p # <<>> /\ p[1] = "/"

\* The file a path names once the system has followed its ".." components: a
\* path that climbs out of project_dir keeps the ".." it could not follow.
RECURSIVE Resolve(_, _, _)
Resolve(p, i, at) ==
    IF i > Len(p) THEN at
    ELSE IF p[i] # ".." THEN Resolve(p, i + 1, Append(at, p[i]))
    ELSE IF at = <<>> \/ at[Len(at)] = ".." THEN Resolve(p, i + 1, Append(at, ".."))
    ELSE IF at = <<"/">> THEN Resolve(p, i + 1, at)
    ELSE Resolve(p, i + 1, SubSeq(at, 1, Len(at) - 1))

\* A resolved path lies in project_dir when it neither starts at the root nor
\* climbs out.
InProjectDir(f) == f # <<>> /\ f[1] \notin {"/", ".."}

\* os.path.join(project_dir, subdirectory, filepath): an absolute filepath
\* discards what precedes it.
JoinPath(subdirectory, filepath) ==
    IF IsAbsolute(filepath) THEN filepath ELSE Resolve(subdirectory \o filepath, 1, <<>>)

\* os.makedirs(dirname) fails on a file in the way, open(full_path, 'w') on a
\* directory.
CanWrite(d, full_path) ==
    /\ full_path # <<>>
    /\ \A f \in DOMAIN d : ~IsProperPrefix(full_path, f) /\ ~IsProperPrefix(f, full_path)

WriteFile(d, full_path, content) ==
    [f \in DOMAIN d \cup {full_path} |-> IF f = full_path THEN content ELSE d[f]]

\* The loop of _save_code_files from item i on: the disk, the paths created
\* and whether a write raised.
RECURSIVE SaveItems(_, _, _, _, _)
SaveItems(d, items, i, subdirectory, created) ==
    IF i > Len(items) THEN [disk |-> d, created |-> created, raised |-> FALSE]
    ELSE IF items[i].content.len > MinContent
    THEN LET full_path == JoinPath(subdirectory, items[i].path)
         IN  IF CanWrite(d, full_path)
             THEN SaveItems(WriteFile(d, full_path, items[i].content), items, i + 1,
                            subdirectory, Append(created, items[i].path))
             ELSE [disk |-> d, created |-> created, raised |-> TRUE]
    ELSE SaveItems(d, items, i + 1, subdirectory, created)

\* _save_code_files(project_dir, code_dict, subdirectory)
SaveCodeFiles(d, code_dict, subdirectory) ==
    IF ~code_dict.isdict THEN [disk |-> d, created |-> <<>>, raised |-> FALSE]
    ELSE SaveItems(d, code_dict.items, 1, subdirectory, <<>>)

Idle == [st |-> "idle", attempt |-> 0, out |-> None]

Done(a) == agent[a].st \in {"ret", "exc"}

KeysOfResults == {results[i].agent : i \in DOMAIN results}

\* The threads of the pool of _parallel_code_generation run the code agents.
IsWorker(a) == parallel /\ a \in CodeAgentSet

WritesResultToo(a, call) ==
    {[by |-> a, obj |-> "context", mode |-> "r"], [by |-> a, obj |-> "results", mode |-> "w"]}

\* What one attempt of _call_llm and the _parse_json after it touch: the prompt
\* is made of the context, the cache is read by get and written by set, the
\* handlers of logging are written by logger.error and logger.warning.
Touched(a, call) ==
    {[by |-> a, obj |-> "context", mode |-> "r"]}
    \cup (IF cache_responses
          THEN {[by |-> a, obj |-> "cache", mode |-> "r"]}
               \cup (IF call.how = "api"
                     THEN {[by |-> a, obj |-> "cache", mode |-> "w"]} ELSE {})
          ELSE {})
    \cup (IF call.how = "error" \/ call.kind = "malformed"
          THEN {[by |-> a, obj |-> "logging", mode |-> "w"]} ELSE {})

\* The ways one attempt of _call_llm ends: a cache hit, an answer of the API
\* (then cached), an exception of the API.
Calls ==
    [how : {"hit", "api"}, kind : ResponseKinds \cup {"nested"}] \cup {[how |-> "error", kind |-> None]}

\* agent.generate_code(...) and the like: the call begins.
Invoke(a) ==
    /\ agent' = [agent EXCEPT ![a] = [st |-> "run", attempt |-> 0, out |-> None]]
    /\ invoked' = Append(invoked, a)

ContinueAfterFailure(pc) == pc

\* except Exception: context.status = "error"; raise
AfterFailure(pc) == "raised"

ReturnsEarly == results # <<>>

\* The with block and the as_completed loop end when every future was handled.
FanInDone == Len(results) = Len(CodeAgents)

EscapesLoop(pc) == "raised"

\* except Exception in the loops of _parallel_code_generation: the loop goes on.
AfterAgentFailure(pc) == pc

CompletedAlready(n) == "completed"

\* context.status = "completed", after phase 7
StatusAfter(n) == IF n = 7 THEN "completed" ELSE status

OrchOff ==
    /\ parallel = FALSE
    /\ cache_responses = FALSE
    /\ opc = "off"
    /\ agent = [a \in Agents |-> Idle]
    /\ results = <<>>
    /\ status = "initializing"
    /\ files_created = <<>>
    /\ requirements = None
    /\ architecture = None
    /\ metrics = None
    /\ disk = <<>>
    /\ config_file = [status |-> "absent", files_created |-> <<>>]
    /\ raised = None
    /\ started = <<>>
    /\ finished = {}
    /\ invoked = <<>>
    /\ acc = {}

\* create_project up to its try block, for either setting of the two switches.
OrchInit ==
    /\ parallel \in BOOLEAN
    /\ cache_responses \in BOOLEAN
    /\ opc = "phase1"
    /\ agent = [a \in Agents |-> Idle]
    /\ results = <<>>
    /\ status = "initializing"
    /\ files_created = <<>>
    /\ requirements = None
    /\ architecture = None
    /\ metrics = None
    /\ disk = <<>>
    /\ config_file = [status |-> "absent", files_created |-> <<>>]
    /\ raised = None
    /\ started = <<>>
    /\ finished = {}
    /\ invoked = <<>>
    /\ acc = {}

\* The retry decorator of _call_llm.
RetryOfCallLlm ==
    /\ max_retries = CallLlmRetries
    /\ base_delay = CallLlmBaseDelay
    /\ rpc = "off"
    /\ attempt = 0
    /\ last_exception = None
    /\ outcomes = <<>>
    /\ sleeps = <<>>
    /\ result = None

\* One attempt of _call_llm by agent a, on whatever thread runs it, and, when it
\* returns, the _parse_json of the answer.
CallLlm(a, call) ==
    /\ agent[a].st = "run"
    /\ call.how = "hit" => cache_responses
    /\ call.how # "error" => call.kind \in KindsOf(a)
    /\ agent' = [agent EXCEPT ![a] =
                    IF call.how # "error"
                    THEN [st |-> "ret", attempt |-> 0, out |-> call.kind]
                    ELSE IF InRange(@.attempt + 1)
                    THEN [st |-> "run", attempt |-> @.attempt + 1, out |-> None]
                    ELSE [st |-> "exc", attempt |-> 0, out |-> "APIError"]]
    /\ acc' = IF IsWorker(a) THEN acc \cup Touched(a, call) ELSE acc
    /\ UNCHANGED <<parallel, cache_responses, opc, results, status, files_created,
                   requirements, architecture, metrics, disk, config_file, raised,
                   started, finished, invoked>>
    /\ UNCHANGED <<cacheVars, retryVars, parseVars, extVars>>

\* Phase 1: _create_structure in the new project directory.
Phase1 ==
    /\ opc = "phase1"
    /\ started' = Append(started, 1)
    /\ disk' = [f \in {Structure[i] : i \in DOMAIN Structure} |-> [by |-> "ProjectFactory", len |-> 0]]
    /\ files_created' = files_created \o Structure
    /\ finished' = finished \cup {1}
    /\ opc' = "phase2"
    /\ UNCHANGED <<parallel, cache_responses, agent, results, status, requirements,
                   architecture, metrics, config_file, raised, invoked, acc>>
    /\ UNCHANGED <<cacheVars, retryVars, parseVars, extVars>>

PhasePc(n) ==
    CASE n = 2 -> "phase2" [] n = 3 -> "phase3" [] n = 4 -> "phase4"
      [] n = 5 -> "phase5" [] n = 6 -> "phase6" [] n = 7 -> "phase7"
      [] OTHER -> "config"

WaitPc(n) ==
    CASE n = 2 -> "wait2" [] n = 3 -> "wait3" [] n = 5 -> "wait5"
      [] n = 6 -> "wait6" [] n = 7 -> "wait7"

\* Phases 2, 3, 5, 6 and 7: start_phase(n), then the call of the phase's agent.
PhaseStart(n) ==
    /\ opc = PhasePc(n)
    /\ started' = Append(started, n)
    /\ Invoke(PhaseAgent(n))
    /\ opc' = WaitPc(n)
    /\ UNCHANGED <<parallel, cache_responses, results, status, files_created,
                   requirements, architecture, metrics, disk, config_file, raised,
                   finished, acc>>
    /\ UNCHANGED <<cacheVars, retryVars, parseVars, extVars>>

\* Phases 2, 3, 5, 6 and 7 once the agent is back: its result is kept, or saved
\* (phases 5 and 6), and an exception of the agent or of the save goes to the
\* except clause of create_project.
PhaseEnd(n) ==
    /\ opc = WaitPc(n)
    /\ Done(PhaseAgent(n))
    /\ LET a == PhaseAgent(n)
           saved == IF n \in {5, 6} /\ agent[a].st = "ret"
                    THEN SaveCodeFiles(disk, Parsed(a, agent[a].out), <<>>)
                    ELSE [disk |-> disk, created |-> <<>>, raised |-> FALSE]
       IN  /\ disk' = saved.disk
           /\ IF agent[a].st = "exc" \/ saved.raised
              THEN /\ status' = "error"
                   /\ raised' = IF agent[a].st = "exc" THEN agent[a].out ELSE "OSError"
                   /\ opc' = AfterFailure(PhasePc(n + 1))
                   /\ UNCHANGED <<files_created, requirements, architecture, metrics,
                                  finished>>
              ELSE /\ files_created' = files_created \o saved.created
                   /\ requirements' = IF n = 2 THEN agent[a].out ELSE requirements
                   /\ architecture' = IF n = 3 THEN agent[a].out ELSE architecture
                   /\ metrics' = IF n = 7 THEN agent[a].out ELSE metrics
                   /\ finished' = finished \cup {n}
                   /\ status' = StatusAfter(n)
                   /\ opc' = PhasePc(n + 1)
                   /\ UNCHANGED raised
    /\ UNCHANGED <<parallel, cache_responses, agent, results, config_file, started,
                   invoked, acc>>
    /\ UNCHANGED <<cacheVars, retryVars, parseVars, extVars>>

\* Phase 4: start_phase(4) and the entry of _parallel_code_generation.
Phase4Start ==
    /\ opc = "phase4"
    /\ started' = Append(started, 4)
    /\ opc' = IF parallel THEN "submit" ELSE "sequential"
    /\ UNCHANGED <<parallel, cache_responses, agent, results, status, files_created,
                   requirements, architecture, metrics, disk, config_file, raised,
                   finished, invoked, acc>>
    /\ UNCHANGED <<cacheVars, retryVars, parseVars, extVars>>

\* executor.submit(agent.generate_code, ...), for the agents in their order.
Submit(i) ==
    /\ opc = "submit"
    /\ agent[CodeAgents[i]].st = "idle"
    /\ \A j \in 1 .. i - 1 : agent[CodeAgents[j]].st # "idle"
    /\ Invoke(CodeAgents[i])
    /\ opc' = IF i = Len(CodeAgents) THEN "collect" ELSE "submit"
    /\ UNCHANGED <<parallel, cache_responses, results, status, files_created,
                   requirements, architecture, metrics, disk, config_file, raised,
                   started, finished, acc>>
    /\ UNCHANGED <<cacheVars, retryVars, parseVars, extVars>>

\* The sequential loop calls the next agent on the calling thread.
CallNext ==
    /\ opc = "sequential"
    /\ Len(results) < Len(SequentialAgents)
    /\ agent[SequentialAgents[Len(results) + 1]].st = "idle"
    /\ Invoke(SequentialAgents[Len(results) + 1])
    /\ UNCHANGED <<parallel, cache_responses, opc, results, status, files_created,
                   requirements, architecture, metrics, disk, config_file, raised,
                   started, finished, acc>>
    /\ UNCHANGED <<cacheVars, retryVars, parseVars, extVars>>

\* The body of either loop for an agent that is done: future.result() (or the
\* call's return), _save_code_files, results[agent_name]; an exception of the
\* agent or of the save leaves results[agent_name] = [].
Collect(a) ==
    /\ opc \in {"collect", "sequential"}
    /\ Done(a)
    /\ a \notin KeysOfResults
    /\ LET saved == IF agent[a].st = "ret"
                    THEN SaveCodeFiles(disk, Parsed(a, agent[a].out), Subdirectory(a))
                    ELSE [disk |-> disk, created |-> <<>>, raised |-> FALSE]
           failed == agent[a].st = "exc" \/ saved.raised
       IN  /\ disk' = saved.disk
           /\ results' = Append(results, [agent |-> a,
                                          files |-> IF failed THEN <<>> ELSE saved.created])
           /\ opc' = IF failed THEN AfterAgentFailure(opc) ELSE opc
           /\ status' = IF opc' = "raised" THEN "error" ELSE status
           /\ raised' = IF opc' = "raised" THEN "Exception" ELSE raised
           /\ acc' = IF parallel
                     THEN acc \cup {[by |-> "main", obj |-> "results", mode |-> "w"]}
                               \cup (IF failed
                                     THEN {[by |-> "main", obj |-> "logging", mode |-> "w"]}
                                     ELSE {})
                     ELSE acc
    /\ UNCHANGED <<parallel, cache_responses, agent, files_created, requirements,
                   architecture, metrics, config_file, started, finished, invoked>>
    /\ UNCHANGED <<cacheVars, retryVars, parseVars, extVars>>

RECURSIVE Extend(_, _, _)
Extend(files, res, i) ==
    IF i > Len(res) THEN files ELSE Extend(files \o res[i].files, res, i + 1)

\* _parallel_code_generation returns; create_project extends files_created with
\* each agent's files.
Phase4End ==
    /\ opc \in {"collect", "sequential"}
    /\ FanInDone
    /\ files_created' = Extend(files_created, results, 1)
    /\ finished' = finished \cup {4}
    /\ opc' = "phase5"
    /\ acc' = {}
    /\ UNCHANGED <<parallel, cache_responses, agent, results, status, requirements,
                   architecture, metrics, disk, config_file, raised, started, invoked>>
    /\ UNCHANGED <<cacheVars, retryVars, parseVars, extVars>>

\* _save_project_config(project_dir, context), and create_project returns.
SaveProjectConfig ==
    /\ opc = "config"
    /\ config_file' = [status |-> status, files_created |-> files_created]
    /\ opc' = "returned"
    /\ UNCHANGED <<parallel, cache_responses, agent, results, status, files_created,
                   requirements, architecture, metrics, disk, raised, started, finished,
                   invoked, acc>>
    /\ UNCHANGED <<cacheVars, retryVars, parseVars, extVars>>

NextOrch ==
    \/ \E a \in Agents, call \in Calls : CallLlm(a, call)
    \/ Phase1
    \/ \E n \in {2, 3, 5, 6, 7} : PhaseStart(n)
    \/ \E n \in {2, 3, 5, 6, 7} : PhaseEnd(n)
    \/ Phase4Start
    \/ \E i \in DOMAIN CodeAgents : Submit(i)
    \/ CallNext
    \/ \E a \in CodeAgentSet : Collect(a)
    \/ Phase4End
    \/ SaveProjectConfig

(***************************************************************************)
(* ResponseCache                                                           *)
(***************************************************************************)

\* content = f"{model}:{prompt}"; md5 is taken to be injective on the contents
\* of the model, so the digest is represented by the content it was made of.
_hash_key(prompt, model) == model \o ":" \o prompt

KeysOf(c) == {c[i].key : i \in DOMAIN c}

IndexOf(c, key) == CHOOSE i \in DOMAIN c : c[i].key = key

IsValidAtTtl(timestamp, t) == t - timestamp <= ttl

\* datetime.now() - timestamp < timedelta(seconds=self.ttl)
IsValid(timestamp, t) == t - timestamp < ttl

RemoveAt(c, i) == SubSeq(c, 1, i - 1) \o SubSeq(c, i + 1, Len(c))

\* del self.cache[key]
DelKey(c, key) == IF key \in KeysOf(c) THEN RemoveAt(c, IndexOf(c, key)) ELSE c

\* The body of get under the lock: the value returned and the dict afterwards.
CacheGet(c, key, t) ==
    IF key \in KeysOf(c)
    THEN LET e == c[IndexOf(c, key)]
         IN  IF IsValid(e.timestamp, t)
             THEN [ret |-> e.response, cache |-> c]
             ELSE [ret |-> None, cache |-> DelKey(c, key)]
    ELSE [ret |-> None, cache |-> c]

IsFullLate(c) == Len(c) > max_size

\* len(self.cache) >= self.max_size
IsFull(c) == Len(c) >= max_size

NewestIndex(c) ==
    CHOOSE i \in DOMAIN c : \A j \in DOMAIN c : c[i].timestamp >= c[j].timestamp

\* min(self.cache, key=lambda k: self.cache[k][1]): the first key, in the dict's
\* order, among those of the least timestamp.
OldestIndex(c) ==
    CHOOSE i \in DOMAIN c :
        /\ \A j \in DOMAIN c : c[i].timestamp <= c[j].timestamp
        /\ \A j \in DOMAIN c : c[j].timestamp = c[i].timestamp => i <= j

\* The first half of set: the eviction.
CacheEvict(c) == IF IsFull(c) THEN RemoveAt(c, OldestIndex(c)) ELSE c

\* self.cache[key] = (response, datetime.now()): an existing key keeps its place
\* in the dict, a new one goes to the end.
CacheStore(c, key, response, t) ==
    LET e == [key |-> key, response |-> response, timestamp |-> t]
    IN  IF key \in KeysOf(c)
        THEN [c EXCEPT ![IndexOf(c, key)] = e]
        ELSE Append(c, e)

\* with self.lock: a caller enters only when no other thread holds the lock.
LockFree == lock = "free"

\* History: no set() of the pair is in the cache.
NoStore == [live |-> FALSE, response |-> None, at |-> 0]

NoGet == [asked |-> FALSE, pair |-> <<"", "">>, ret |-> None, at |-> 0,
          had |-> NoStore, present |-> FALSE]

\* History: the pairs whose stored entry is under one of the keys.
Drop(s, keys) ==
    [pm \in Pairs |-> IF _hash_key(pm[1], pm[2]) \in keys THEN NoStore ELSE s[pm]]

CacheInit ==
    /\ cache = <<>>
    /\ lock = "free"
    /\ inset = {}
    /\ now = 0
    /\ stored = [pm \in Pairs |-> NoStore]
    /\ lastGet = NoGet
    /\ lastSet = "none"

\* ResponseCache.get(prompt, model), called by any thread.
Get(prompt, model) ==
    /\ LockFree
    /\ LET key == _hash_key(prompt, model)
           g == CacheGet(cache, key, now)
       IN  /\ cache' = g.cache
           /\ lastGet' = [asked |-> TRUE, pair |-> <<prompt, model>>, ret |-> g.ret, at |-> now,
                          had |-> stored[<<prompt, model>>],
                          present |-> key \in KeysOf(g.cache)]
           /\ stored' = Drop(stored, KeysOf(cache) \ KeysOf(g.cache))
    /\ lastSet' = "none"
    /\ UNCHANGED <<lock, inset, now>>
    /\ UNCHANGED <<retryVars, parseVars, orchVars, extVars>>

\* ResponseCache.set(prompt, model, response), up to its eviction.
SetEvict(prompt, model, response) ==
    /\ LockFree
    /\ lock' = "held"
    /\ cache' = CacheEvict(cache)
    /\ inset' = inset \cup {[prompt |-> prompt, model |-> model, response |-> response,
                               before |-> cache]}
    /\ stored' = Drop(stored, KeysOf(cache) \ KeysOf(cache'))
    /\ lastGet' = NoGet
    /\ lastSet' = "none"
    /\ UNCHANGED now
    /\ UNCHANGED <<retryVars, parseVars, orchVars, extVars>>

\* ResponseCache.set, its store and the release of the lock.
SetStore(s) ==
    /\ s \in inset
    /\ LET key == _hash_key(s.prompt, s.model)
       IN  /\ cache' = CacheStore(cache, key, s.response, now)
           /\ stored' = [Drop(stored, {key}) EXCEPT ![<<s.prompt, s.model>>] =
                            [live |-> TRUE, response |-> s.response, at |-> now]]
    /\ inset' = inset \ {s}
    /\ lock' = "free"
    /\ lastSet' = IF Len(s.before) >= max_size THEN "full" ELSE "room"
    /\ lastGet' = NoGet
    /\ UNCHANGED now
    /\ UNCHANGED <<retryVars, parseVars, orchVars, extVars>>

\* ResponseCache.clear()
Clear ==
    /\ LockFree
    /\ cache' = <<>>
    /\ stored' = [pm \in Pairs |-> NoStore]
    /\ lastGet' = NoGet
    /\ lastSet' = "none"
    /\ UNCHANGED <<lock, inset, now>>
    /\ UNCHANGED <<retryVars, parseVars, orchVars, extVars>>

\* Time passes.
Tick ==
    /\ now < MaxTime
    /\ now' = now + 1
    /\ lastGet' = NoGet
    /\ lastSet' = "none"
    /\ UNCHANGED <<cache, lock, inset, stored>>
    /\ UNCHANGED <<retryVars, parseVars, orchVars, extVars>>

NextCache ==
    \/ \E p \in Prompts, m \in Models : Get(p, m)
    \/ \E p \in Prompts, m \in Models, r \in Responses : SetEvict(p, m, r)
    \/ \E s \in inset : SetStore(s)
    \/ Clear
    \/ Tick

(* The later sections at rest *)
LlmOff ==
    /\ client = FALSE
    /\ lpc = "off"
    /\ pending = [done |-> FALSE, pair |-> <<"", "">>, use_cache |-> FALSE, ret |-> None,
                  api |-> FALSE, had |-> NoStore, at |-> 0]
    /\ lastCall = [done |-> FALSE, pair |-> <<"", "">>, use_cache |-> FALSE, ret |-> None,
                   api |-> FALSE, had |-> NoStore, at |-> 0]

ProfOff ==
    /\ description = <<>>
    /\ suggested = "off"

BrigOff ==
    /\ ENHANCED_MODE = "False"
    /\ profile_name = None
    /\ plugin_registry = {}
    /\ agents = {}
    /\ bpc = "off"
    /\ called = {}

ValOff ==
    /\ report = [results |-> <<>>, passed |-> 0, failed |-> 0, warnings |-> 0, skipped |-> 0]
    /\ dir_exists = FALSE
    /\ post_checks = <<>>
    /\ vpc = "off"
    /\ executed = <<>>
    /\ quality_gate = None
    /\ gate_name = None
    /\ passed_gate = None

PlugOff ==
    /\ registry = <<>>
    /\ held = [got |-> FALSE, alias |-> FALSE, map |-> <<>>]
    /\ registrations = <<>>
    /\ gpc = "off"

BaseOff ==
    /\ plugin = [status |-> "idle", tasks_completed |-> 0, last_run |-> 0, errors |-> <<>>]
    /\ runpc = "off"
    /\ task_arg = None
    /\ lastRun = [done |-> FALSE, how |-> None, value |-> None,
                  before |-> [status |-> "idle", tasks_completed |-> 0, last_run |-> 0,
                              errors |-> <<>>]]
    /\ runs = 0

HookOff ==
    /\ HOOKS = [h \in {"pre_generation", "post_generation"} |-> <<>>]
    /\ hpc = "off"
    /\ hook_arg = None
    /\ hook_results = <<>>
    /\ hook_calls = <<>>
    /\ hook_raised = None

HealOff ==
    /\ heal_file = [ext |-> "", content |-> <<>>]
    /\ heal_pc = "off"
    /\ heal_out = <<>>
    /\ heal_llm = 0
    /\ heal_count = 0

SaveOff ==
    /\ V4_MODE = FALSE
    /\ save_pc = "off"
    /\ code_items = <<>>
    /\ written = <<>>
    /\ save_created = <<>>
    /\ healer_calls = {}

CtxOff ==
    /\ cb_files = <<>>
    /\ cb_chunks = <<>>
    /\ cb_pc = "off"
    /\ cb_size = 0
    /\ cb_current = [content_len |-> 0, files |-> <<>>, tokens |-> 0]
    /\ cb_chunk_num = 0
    /\ cb_index = 0

ExtOff == LlmOff /\ ProfOff /\ BrigOff /\ ValOff /\ PlugOff /\ BaseOff /\ HookOff /\ HealOff /\ SaveOff /\ CtxOff

OffExcept_llm == ProfOff /\ BrigOff /\ ValOff /\ PlugOff /\ BaseOff /\ HookOff /\ HealOff /\ SaveOff /\ CtxOff

OffExcept_prof == LlmOff /\ BrigOff /\ ValOff /\ PlugOff /\ BaseOff /\ HookOff /\ HealOff /\ SaveOff /\ CtxOff

OffExcept_brig == LlmOff /\ ProfOff /\ ValOff /\ PlugOff /\ BaseOff /\ HookOff /\ HealOff /\ SaveOff /\ CtxOff

OffExcept_val == LlmOff /\ ProfOff /\ BrigOff /\ PlugOff /\ BaseOff /\ HookOff /\ HealOff /\ SaveOff /\ CtxOff

OffExcept_plug == LlmOff /\ ProfOff /\ BrigOff /\ ValOff /\ BaseOff /\ HookOff /\ HealOff /\ SaveOff /\ CtxOff

OffExcept_base == LlmOff /\ ProfOff /\ BrigOff /\ ValOff /\ PlugOff /\ HookOff /\ HealOff /\ SaveOff /\ CtxOff

OffExcept_hook == LlmOff /\ ProfOff /\ BrigOff /\ ValOff /\ PlugOff /\ BaseOff /\ HealOff /\ SaveOff /\ CtxOff

OffExcept_heal == LlmOff /\ ProfOff /\ BrigOff /\ ValOff /\ PlugOff /\ BaseOff /\ HookOff /\ SaveOff /\ CtxOff

OffExcept_save == LlmOff /\ ProfOff /\ BrigOff /\ ValOff /\ PlugOff /\ BaseOff /\ HookOff /\ HealOff /\ CtxOff

OffExcept_ctx == LlmOff /\ ProfOff /\ BrigOff /\ ValOff /\ PlugOff /\ BaseOff /\ HookOff /\ HealOff /\ SaveOff
(* End of the later sections at rest *)

InitCache == CacheInit /\ RetryOff /\ ParseOff /\ OrchOff /\ ExtOff

SpecCache == InitCache /\ [][NextCache]_vars

(***************************************************************************)
(* C1: a get(prompt, model) made less than ttl seconds after the set of    *)
(* that pair, whose entry was neither overwritten, evicted nor cleared,    *)
(* returns the response that was set; a get made ttl seconds or more after *)
(* it returns None and leaves no entry under the key.                      *)
(***************************************************************************)
C1_GetWithinTtl ==
    (lastGet.asked /\ lastGet.had.live) =>
        IF lastGet.at - lastGet.had.at < ttl
        THEN lastGet.ret = lastGet.had.response
        ELSE lastGet.ret = None /\ ~lastGet.present

C1_Witness ==
    /\ lastGet.asked
    /\ lastGet.had.live
    /\ lastGet.at - lastGet.had.at = ttl - 1
    /\ lastGet.at > lastGet.had.at
    /\ lastGet.ret = lastGet.had.response

(***************************************************************************)
(* C2: with max_size >= 1, whatever get, set and clear calls the threads   *)
(* make, the cache never holds more than max_size entries.                 *)
(***************************************************************************)
C2_SizeBound == Len(cache) <= max_size

C2_Witness ==
    /\ lastSet = "full"
    /\ lock = "free"
    /\ Len(cache) = max_size

InitRetry == RetryInit /\ CacheInit /\ ParseOff /\ OrchOff /\ ExtOff

SpecRetry == InitRetry /\ [][NextRetry]_vars

Failed == {i \in DOMAIN outcomes : ~outcomes[i].ok}

(***************************************************************************)
(* C3: with max_retries >= 1 the wrapper invokes func at least once and at *)
(* most max_retries times; it returns the value of the first invocation    *)
(* that succeeds and invokes nothing after it; when all max_retries        *)
(* invocations raise, it raises the exception of the last one.             *)
(***************************************************************************)
C3_RetryOutcome ==
    max_retries >= 1 =>
        /\ Len(outcomes) <= max_retries
        /\ rpc \in {"returned", "raised"} => Len(outcomes) >= 1
        /\ \A i \in DOMAIN outcomes :
               outcomes[i].ok => /\ i = Len(outcomes)
                                 /\ rpc = "returned"
                                 /\ result = outcomes[i].val
        /\ rpc = "returned" => outcomes[Len(outcomes)].ok
        /\ (Len(outcomes) = max_retries /\ Failed = DOMAIN outcomes) <=> rpc = "raised"
        /\ rpc = "raised" => result = outcomes[max_retries].val

C3_Witness ==
    /\ max_retries >= 2
    /\ rpc = "raised"
    /\ Len(outcomes) = max_retries
    /\ outcomes[1].val # outcomes[max_retries].val
    /\ result = outcomes[max_retries].val

(***************************************************************************)
(* C4: the wrapper sleeps base_delay * 2^i after the i-th failed attempt   *)
(* (i from 0) when that attempt is not the last allowed one, and never     *)
(* after the last failed attempt or after a success: 2 then 4 seconds      *)
(* with the parameters of _call_llm.                                       *)
(***************************************************************************)
C4_BackoffDelays ==
    /\ \A i \in DOMAIN sleeps : sleeps[i] = base_delay * 2 ^ (i - 1)
    /\ rpc = "sleep" => Len(sleeps) = Cardinality(Failed) - 1
    /\ rpc = "try" => Len(sleeps) = Cardinality(Failed)
    /\ rpc = "returned" => Len(sleeps) = Len(outcomes) - 1
    /\ (rpc = "raised" /\ max_retries >= 1) => Len(sleeps) = max_retries - 1
    /\ (rpc = "raised" /\ max_retries = CallLlmRetries /\ base_delay = CallLlmBaseDelay)
            => sleeps = <<2, 4>>

C4_Witness ==
    /\ rpc = "raised"
    /\ max_retries = CallLlmRetries
    /\ base_delay = CallLlmBaseDelay
    /\ sleeps = <<2, 4>>

InitParse == ParseInit /\ CacheInit /\ RetryOff /\ OrchOff /\ ExtOff

SpecParse == InitParse /\ [][NextParse]_vars

InitOrch == OrchInit /\ CacheInit /\ RetryOfCallLlm /\ ParseOff /\ ExtOff

SpecOrch == InitOrch /\ [][NextOrch]_vars

PhaseOrder == <<1, 2, 3, 4, 5, 6, 7>>

(***************************************************************************)
(* C6: create_project starts its phases in the order 1 .. 7, each at most  *)
(* once; an agent is invoked only when every earlier phase has finished    *)
(* without an exception, each agent at most once; and when an exception    *)
(* has escaped phase k, phase k is the last one started and no agent of a  *)
(* later phase was invoked.                                                *)
(***************************************************************************)
C6_PhaseOrder ==
    /\ started = SubSeq(PhaseOrder, 1, Len(started))
    /\ \A i \in DOMAIN invoked :
          /\ PhaseOf(invoked[i]) <= Len(started)
          /\ \A k \in 1 .. PhaseOf(invoked[i]) - 1 : k \in finished
          /\ \A j \in DOMAIN invoked : invoked[i] = invoked[j] => i = j
    /\ \A a \in Agents : agent[a].st # "idle" <=> \E i \in DOMAIN invoked : invoked[i] = a
    /\ status = "error" <=> opc = "raised"
    /\ opc = "raised" =>
          /\ Len(started) \notin finished
          /\ \A a \in Agents : agent[a].st # "run"
          /\ \A a \in Agents : PhaseOf(a) > Len(started) => agent[a].st = "idle"

C6_Witness ==
    /\ opc = "raised"
    /\ started = <<1, 2, 3, 4, 5>>
    /\ finished = {1, 2, 3, 4}
    /\ agent["DevOpsAI"].st = "exc"
    /\ agent["PresentationAI"].st = "idle"

(***************************************************************************)
(* C7: in parallel mode exactly FrontendAI, BackendAI and DataAI are       *)
(* submitted; _parallel_code_generation returns only when all three are    *)
(* done, with exactly their three keys in its result; and phase 5 is not   *)
(* started, nor DevOpsAI invoked, while a worker is still running.         *)
(***************************************************************************)
C7_FanOutFanIn ==
    parallel =>
        /\ Len(invoked) >= 5 => SubSeq(invoked, 3, 5) = CodeAgents
        /\ \A i \in DOMAIN results : \A j \in DOMAIN results :
              results[i].agent = results[j].agent => i = j
        /\ 4 \in finished =>
              /\ \A a \in CodeAgentSet : Done(a)
              /\ KeysOfResults = CodeAgentSet
        /\ (Len(started) >= 5 \/ agent["DevOpsAI"].st # "idle") =>
              /\ 4 \in finished
              /\ \A a \in CodeAgentSet : Done(a)

C7_Witness ==
    /\ parallel
    /\ Len(started) = 5
    /\ agent["DevOpsAI"].st = "run"
    /\ KeysOfResults = CodeAgentSet
    /\ results[1].agent = "DataAI"
    /\ agent["FrontendAI"].st = "exc"

\* The objects one worker has written and another worker has read or written.
SharedByWorkers ==
    {r.obj : r \in {x \in acc :
                      /\ x.by \in CodeAgentSet
                      /\ x.mode = "w"
                      /\ \E y \in acc : y.by \in CodeAgentSet /\ y.by # x.by /\ y.obj = x.obj}}

(***************************************************************************)
(* C8 as stated: during the fan-out no object other than the result        *)
(* collection is written by one worker and read or written by another.     *)
(***************************************************************************)
C8_NoSharedMutableState == SharedByWorkers \subseteq {"results"}

(***************************************************************************)
(* C8 amended: during the fan-out the workers share the ResponseCache      *)
(* (when cache_responses is on) and the handlers of logging, and no other  *)
(* object; the result collection is written by the calling thread alone.   *)
(***************************************************************************)
C8_SharedCacheAndLogging ==
    /\ SharedByWorkers \subseteq {"cache", "logging"}
    /\ ~cache_responses => "cache" \notin SharedByWorkers
    /\ \A r \in acc : r.obj = "results" => r.by = "main"
    /\ \A r \in acc : r.by \in CodeAgentSet \cup {"main"}

C8_Witness ==
    /\ opc = "collect"
    /\ "cache" \in SharedByWorkers
    /\ [by |-> "main", obj |-> "results", mode |-> "w"] \in acc
    /\ \E a \in CodeAgentSet : agent[a].st = "run"

(***************************************************************************)
(* C9: in both modes, a code agent whose generate_code raised gets the     *)
(* empty list in the result, the files of an agent that returned a dict    *)
(* are saved and listed whatever the others did, and no exception escapes  *)
(* phase 4: create_project goes on to phase 5.                             *)
(***************************************************************************)
C9_FailureIsolation ==
    /\ \A i \in DOMAIN results :
          LET a == results[i].agent
          IN  /\ agent[a].st = "exc" => results[i].files = <<>>
              /\ (agent[a].st = "ret" /\ agent[a].out = "dict") =>
                    /\ results[i].files = << <<"main.py">> >>
                    /\ JoinPath(Subdirectory(a), <<"main.py">>) \in DOMAIN disk
                    /\ \/ disk[JoinPath(Subdirectory(a), <<"main.py">>)].by = a
                       \/ /\ a = "DataAI"
                          /\ agent["BackendAI"].out = "nested"
                          /\ disk[JoinPath(Subdirectory(a), <<"main.py">>)].by = "BackendAI"
    /\ Len(started) = 4 => opc # "raised" /\ status # "error" /\ raised = None
    /\ Len(started) > 4 => 4 \in finished /\ KeysOfResults = CodeAgentSet
    /\ 4 \in finished =>
          \A i \in DOMAIN results : \A j \in DOMAIN results[i].files :
              \E k \in DOMAIN files_created : files_created[k] = results[i].files[j]

C9_Witness ==
    /\ ~parallel
    /\ opc = "wait5"
    /\ agent["BackendAI"].st = "exc"
    /\ agent["FrontendAI"].out = "dict"
    /\ agent["DataAI"].out = "dict"
    /\ <<"10_Code", "Backend", "data", "main.py">> \in DOMAIN disk

(***************************************************************************)
(* C10: the status is "completed" only once phase 7 has finished, and      *)
(* then .project-config.json is written with that status and the files     *)
(* accumulated; when an exception escapes a phase the status is "error",   *)
(* the exception is raised to the caller and .project-config.json is not   *)
(* written.                                                                *)
(***************************************************************************)
C10_Outcome ==
    /\ status = "completed" <=> 7 \in finished
    /\ 7 \in finished => finished = 1 .. 7 /\ opc \in {"config", "returned"}
    /\ opc = "returned" <=> config_file.status # "absent"
    /\ opc = "returned" =>
          /\ config_file = [status |-> "completed", files_created |-> files_created]
          /\ raised = None
    /\ opc = "raised" =>
          /\ status = "error"
          /\ raised # None
          /\ config_file.status = "absent"
          /\ finished # 1 .. 7
    /\ status \in {"initializing", "completed", "error"}

C10_Witness ==
    /\ opc = "returned"
    /\ config_file.status = "completed"
    /\ Len(config_file.files_created) > Len(Structure)
    /\ \E a \in CodeAgentSet : agent[a].st = "exc"

(***************************************************************************)
(* C5: when the response is malformed JSON (json.loads fails on it once    *)
(* the fences and outer white space are off), _parse_json returns the      *)
(* fallback object whose raw_response is the raw response text it was      *)
(* given.                                                                  *)
(***************************************************************************)
C5_RawTextFallback ==
    (ppc = "done" /\ ~JsonLoads(Cleaned(response_arg))) =>
        /\ parsed.kind = "fallback"
        /\ parsed.text = response_arg

(***************************************************************************)
(* C11: every file on the disk after any _save_code_files of the run lies  *)
(* inside the project directory of the run.                                *)
(***************************************************************************)
C11_FilesInProjectDir == \A f \in DOMAIN disk : InProjectDir(f)

C17_LeastRecentlyUsed ==
    [][(/\ lastGet.asked
        /\ lastGet.ret # None
        /\ Len(cache) > 1
        /\ lock' = "held"
        /\ \A s \in inset' : _hash_key(s.prompt, s.model) \notin KeysOf(cache))
       => _hash_key(lastGet.pair[1], lastGet.pair[2]) \in KeysOf(cache')]_vars

(***************************************************************************)
(* EnhancedBaseAgent._call_llm on the ResponseCache                        *)
(***************************************************************************)
\* What response.choices[0].message.content can be: the empty string too.
ApiResponses == Responses \cup {""}

NoClient == "Error: OpenAI package not installed"

NoCall == [done |-> FALSE, pair |-> <<"", "">>, use_cache |-> FALSE, ret |-> None,
           api |-> FALSE, had |-> NoStore, at |-> 0]

\* if cached: None and the empty string are both false
Truthy(cached) == cached # None /\ cached # ""

LlmInit ==
    /\ client \in BOOLEAN
    /\ lpc = "idle"
    /\ pending = NoCall
    /\ lastCall = NoCall

\* _call_llm up to the cache: with caching on, self.cache.get(prompt, self.model)
\* and the return of what it found; use_cache stands for the parameter and the
\* setting execution.cache_responses together.
CallLlmGet(prompt, model, use_cache) ==
    /\ lpc = "idle"
    /\ LockFree
    /\ LET pm == <<prompt, model>>
           g == IF use_cache THEN CacheGet(cache, _hash_key(prompt, model), now)
                ELSE [ret |-> None, cache |-> cache]
           call == [done |-> FALSE, pair |-> pm, use_cache |-> use_cache, ret |-> None,
                    api |-> FALSE, had |-> stored[pm], at |-> now]
       IN  /\ cache' = g.cache
           /\ stored' = Drop(stored, KeysOf(cache) \ KeysOf(g.cache))
           /\ IF use_cache /\ Truthy(g.ret)
              THEN /\ lastCall' = [call EXCEPT !.done = TRUE, !.ret = g.ret]
                   /\ pending' = NoCall
                   /\ lpc' = "idle"
              ELSE /\ lastCall' = NoCall
                   /\ pending' = call
                   /\ lpc' = "api"
    /\ UNCHANGED <<lock, inset, now, lastGet, lastSet, client>>
    /\ UNCHANGED <<retryVars, parseVars, orchVars, othersOf_llm>>

\* _call_llm without a client returns the error text.
CallLlmNoClient ==
    /\ lpc = "api"
    /\ ~client
    /\ lastCall' = [pending EXCEPT !.done = TRUE, !.ret = NoClient]
    /\ pending' = NoCall
    /\ lpc' = "idle"
    /\ UNCHANGED client
    /\ UNCHANGED <<cacheVars, retryVars, parseVars, orchVars, othersOf_llm>>

\* The API answers: with caching on, self.cache.set(prompt, self.model, result),
\* then the return of the answer.
CallLlmApi(response) ==
    /\ lpc = "api"
    /\ client
    /\ LockFree
    /\ LET key == _hash_key(pending.pair[1], pending.pair[2])
           evicted == CacheEvict(cache)
       IN  IF pending.use_cache
           THEN /\ cache' = CacheStore(evicted, key, response, now)
                /\ stored' = [Drop(stored, (KeysOf(cache) \ KeysOf(evicted)) \cup {key})
                                 EXCEPT ![pending.pair] =
                                     [live |-> TRUE, response |-> response, at |-> now]]
           ELSE UNCHANGED <<cache, stored>>
    /\ lastCall' = [pending EXCEPT !.done = TRUE, !.ret = response, !.api = TRUE]
    /\ pending' = NoCall
    /\ lpc' = "idle"
    /\ UNCHANGED <<lock, inset, now, lastGet, lastSet, client>>
    /\ UNCHANGED <<retryVars, parseVars, orchVars, othersOf_llm>>

\* The API raises: logger.error and raise.
CallLlmError ==
    /\ lpc = "api"
    /\ client
    /\ lastCall' = [pending EXCEPT !.done = TRUE, !.ret = "raised", !.api = TRUE]
    /\ pending' = NoCall
    /\ lpc' = "idle"
    /\ UNCHANGED client
    /\ UNCHANGED <<cacheVars, retryVars, parseVars, orchVars, othersOf_llm>>

\* Time passes between the calls and while the API is awaited.
LlmTick ==
    /\ now < MaxTime
    /\ now' = now + 1
    /\ lastCall' = NoCall
    /\ UNCHANGED <<cache, lock, inset, stored, lastGet, lastSet, client, lpc, pending>>
    /\ UNCHANGED <<retryVars, parseVars, orchVars, othersOf_llm>>

\* ResponseCache.clear() between the calls.
LlmClear ==
    /\ LockFree
    /\ cache' = <<>>
    /\ stored' = [pm \in Pairs |-> NoStore]
    /\ lastCall' = NoCall
    /\ UNCHANGED <<lock, inset, now, lastGet, lastSet, client, lpc, pending>>
    /\ UNCHANGED <<retryVars, parseVars, orchVars, othersOf_llm>>

NextLlm ==
    \/ \E p \in Prompts, m \in Models, u \in BOOLEAN : CallLlmGet(p, m, u)
    \/ CallLlmNoClient
    \/ \E r \in ApiResponses : CallLlmApi(r)
    \/ CallLlmError
    \/ LlmTick
    \/ LlmClear

InitLlm == LlmInit /\ CacheInit /\ RetryOff /\ ParseOff /\ OrchOff /\ OffExcept_llm

SpecLlm == InitLlm /\ [][NextLlm]_vars

(***************************************************************************)
(* C18: with caching on, a _call_llm for a pair whose answer an earlier    *)
(* _call_llm stored less than ttl seconds ago, and whose entry was neither *)
(* evicted nor cleared, returns that answer and does not invoke the API,   *)
(* whatever the answer is.                                                 *)
(***************************************************************************)
C18_CachedCallSkipsApi ==
    (/\ lastCall.done
     /\ lastCall.use_cache
     /\ lastCall.had.live
     /\ lastCall.at - lastCall.had.at < ttl)
    => (lastCall.ret = lastCall.had.response /\ ~lastCall.api)

(***************************************************************************)
(* ProfileManager.suggest_profile                                          *)
(***************************************************************************)
\* The keys of PROFILES, in their order.
ProfileNames ==
    <<"web_app", "ml_project", "mobile_app", "cli_tool", "microservices", "api_backend",
      "data_pipeline", "iot_project", "chrome_extension", "desktop_app">>

\* keyword_map: its keys in their order, and each key's keywords in theirs, a
\* keyword being the sequence of its characters.
KeywordMapKeys ==
    <<"ml_project", "web_app", "mobile_app", "cli_tool",
      "microservices", "api_backend", "data_pipeline", "iot_project",
      "chrome_extension", "desktop_app">>

Keywords(profile) ==
    CASE profile = "ml_project" ->
            << <<"m", "a", "c", "h", "i", "n", "e", " ", "l", "e", "a", "r", "n", "i", "n", "g">>,
               <<"m", "l">>,
               <<"a", "i", " ", "m", "o", "d", "e", "l">>,
               <<"t", "r", "a", "i", "n", "i", "n", "g">>,
               <<"p", "r", "e", "d", "i", "c", "t", "i", "o", "n">>,
               <<"n", "e", "u", "r", "a", "l">>,
               <<"d", "e", "e", "p", " ", "l", "e", "a", "r", "n", "i", "n", "g">> >>
      [] profile = "web_app" ->
            << <<"w", "e", "b", "s", "i", "t", "e">>,
               <<"w", "e", "b", " ", "a", "p", "p">>,
               <<"d", "a", "s", "h", "b", "o", "a", "r", "d">>,
               <<"p", "o", "r", "t", "a", "l">>,
               <<"s", "a", "a", "s">>,
               <<"f", "r", "o", "n", "t", "e", "n", "d">>,
               <<"r", "e", "a", "c", "t">>,
               <<"v", "u", "e">> >>
      [] profile = "mobile_app" ->
            << <<"m", "o", "b", "i", "l", "e">>,
               <<"i", "o", "s">>,
               <<"a", "n", "d", "r", "o", "i", "d">>,
               <<"r", "e", "a", "c", "t", " ", "n", "a", "t", "i", "v", "e">>,
               <<"f", "l", "u", "t", "t", "e", "r">>,
               <<"a", "p", "p", " ", "s", "t", "o", "r", "e">> >>
      [] profile = "cli_tool" ->
            << <<"c", "l", "i">>,
               <<"c", "o", "m", "m", "a", "n", "d", " ", "l", "i", "n", "e">>,
               <<"t", "e", "r", "m", "i", "n", "a", "l">>,
               <<"s", "c", "r", "i", "p", "t">>,
               <<"a", "u", "t", "o", "m", "a", "t", "i", "o", "n", " ", "t", "o", "o", "l">> >>
      [] profile = "microservices" ->
            << <<"m", "i", "c", "r", "o", "s", "e", "r", "v", "i", "c", "e">>,
               <<"d", "i", "s", "t", "r", "i", "b", "u", "t", "e", "d">>,
               <<"k", "u", "b", "e", "r", "n", "e", "t", "e", "s">>,
               <<"k", "8", "s">>,
               <<"m", "u", "l", "t", "i", "p", "l", "e", " ", "s", "e", "r", "v", "i", "c", "e", "s">> >>
      [] profile = "api_backend" ->
            << <<"a", "p", "i">>,
               <<"r", "e", "s", "t">>,
               <<"b", "a", "c", "k", "e", "n", "d", " ", "o", "n", "l", "y">>,
               <<"s", "e", "r", "v", "e", "r">>,
               <<"e", "n", "d", "p", "o", "i", "n", "t">> >>
      [] profile = "data_pipeline" ->
            << <<"e", "t", "l">>,
               <<"p", "i", "p", "e", "l", "i", "n", "e">>,
               <<"d", "a", "t", "a", " ", "p", "r", "o", "c", "e", "s", "s", "i", "n", "g">>,
               <<"a", "i", "r", "f", "l", "o", "w">>,
               <<"o", "r", "c", "h", "e", "s", "t", "r", "a", "t", "i", "o", "n">> >>
      [] profile = "iot_project" ->
            << <<"i", "o", "t">>,
               <<"s", "e", "n", "s", "o", "r">>,
               <<"d", "e", "v", "i", "c", "e">>,
               <<"e", "m", "b", "e", "d", "d", "e", "d">>,
               <<"m", "q", "t", "t">>,
               <<"h", "a", "r", "d", "w", "a", "r", "e">> >>
      [] profile = "chrome_extension" ->
            << <<"c", "h", "r", "o", "m", "e", " ", "e", "x", "t", "e", "n", "s", "i", "o", "n">>,
               <<"f", "i", "r", "e", "f", "o", "x", " ", "a", "d", "d", "o", "n">>,
               <<"b", "r", "o", "w", "s", "e", "r", " ", "p", "l", "u", "g", "i", "n">>,
               <<"m", "a", "n", "i", "f", "e", "s", "t", ".", "j", "s", "o", "n">> >>
      [] profile = "desktop_app" ->
            << <<"d", "e", "s", "k", "t", "o", "p">>,
               <<"g", "u", "i">>,
               <<"w", "i", "n", "d", "o", "w", "s", " ", "a", "p", "p">>,
               <<"m", "a", "c", " ", "a", "p", "p">>,
               <<"t", "k", "i", "n", "t", "e", "r">>,
               <<"q", "t">>,
               <<"p", "y", "q", "t">>,
               <<"e", "l", "e", "c", "t", "r", "o", "n">> >>

\* str.lower(), letter by letter
LowerChar(c) ==
    CASE c = "A" -> "a" [] c = "B" -> "b" [] c = "C" -> "c" [] c = "D" -> "d"
      [] c = "E" -> "e" [] c = "F" -> "f" [] c = "G" -> "g" [] c = "H" -> "h"
      [] c = "I" -> "i" [] c = "J" -> "j" [] c = "K" -> "k" [] c = "L" -> "l"
      [] c = "M" -> "m" [] c = "N" -> "n" [] c = "O" -> "o" [] c = "P" -> "p"
      [] c = "Q" -> "q" [] c = "R" -> "r" [] c = "S" -> "s" [] c = "T" -> "t"
      [] c = "U" -> "u" [] c = "V" -> "v" [] c = "W" -> "w" [] c = "X" -> "x"
      [] c = "Y" -> "y" [] c = "Z" -> "z"
      [] OTHER -> c

Lower(d) == [i \in DOMAIN d |-> LowerChar(d[i])]

\* keyword in description: the keyword is a substring of the description
Occurs(keyword, d) ==
    \E i \in 0 .. Len(d) - Len(keyword) : SubSeq(d, i + 1, i + Len(keyword)) = keyword

\* The inner loop: scores[profile] += 1 for each keyword in the description.
RECURSIVE ScoreOf(_, _, _)
ScoreOf(keywords, i, d) ==
    IF i > Len(keywords) THEN 0
    ELSE (IF Occurs(keywords[i], d) THEN 1 ELSE 0) + ScoreOf(keywords, i + 1, d)

Scores(d) ==
    [profile \in {KeywordMapKeys[i] : i \in DOMAIN KeywordMapKeys} |->
        ScoreOf(Keywords(profile), 1, d)]

LaterWins(score, best) == score >= best

\* max(scores, key=scores.get) keeps the first key of the greatest score: a later
\* key replaces it only with a greater one.
Better(score, best) == score > best

RECURSIVE MaxKey(_, _, _)
MaxKey(scores, i, best) ==
    IF i > Len(KeywordMapKeys) THEN best
    ELSE MaxKey(scores, i + 1,
                IF Better(scores[KeywordMapKeys[i]], scores[best])
                THEN KeywordMapKeys[i] ELSE best)

suggest_profile(d) ==
    LET scores == Scores(Lower(d))
        best_match == MaxKey(scores, 2, KeywordMapKeys[1])
    IN  IF scores[best_match] > 0 THEN best_match ELSE "web_app"

\* The descriptions of the model: up to MaxWords of these words, with single
\* spaces between.
Words ==
    { <<"M", "L">>,
      <<"h", "t", "m", "l">>,
      <<"a", "p", "i">>,
      <<"r", "a", "p", "i", "d">>,
      <<"w", "e", "b", "s", "i", "t", "e">>,
      <<"c", "l", "i", "e", "n", "t">>,
      <<"p", "y", "q", "t">>,
      <<"r", "e", "a", "c", "t">>,
      <<"n", "a", "t", "i", "v", "e">>,
      <<"b", "l", "o", "g">>,
      <<"i", "o", "t">>,
      <<"S", "e", "n", "s", "o", "r">> }

MaxWords == 2

RECURSIVE DescriptionsOf(_)
DescriptionsOf(n) ==
    IF n = 0 THEN {<<>>}
    ELSE IF n = 1 THEN Words
    ELSE {d \o <<" ">> \o w : d \in DescriptionsOf(n - 1), w \in Words}

Descriptions == UNION {DescriptionsOf(n) : n \in 0 .. MaxWords}

ProfInit ==
    /\ description \in Descriptions
    /\ suggested = None

SuggestProfile ==
    /\ suggested = None
    /\ suggested' = suggest_profile(description)
    /\ UNCHANGED description
    /\ UNCHANGED <<cacheVars, retryVars, parseVars, orchVars, othersOf_prof>>

NextProf == SuggestProfile

InitProf == ProfInit /\ CacheInit /\ RetryOff /\ ParseOff /\ OrchOff /\ OffExcept_prof

SpecProf == InitProf /\ [][NextProf]_vars

\* The number of keywords of a profile that occur in the lower-cased description.
Matching(profile) ==
    Cardinality({i \in DOMAIN Keywords(profile) :
                    Occurs(Keywords(profile)[i], Lower(description))})

PositionOf(profile) == CHOOSE i \in DOMAIN KeywordMapKeys : KeywordMapKeys[i] = profile

(***************************************************************************)
(* C12: suggest_profile returns a key of PROFILES; when no keyword of any  *)
(* profile occurs in the lower-cased description it returns "web_app";     *)
(* otherwise it returns a profile with the greatest number of matching     *)
(* keywords, the first of them in the order of keyword_map.                *)
(***************************************************************************)
C12_KeywordCounting ==
    suggested \notin {None, "off"} =>
        LET keys == {KeywordMapKeys[i] : i \in DOMAIN KeywordMapKeys}
        IN  /\ \E i \in DOMAIN ProfileNames : ProfileNames[i] = suggested
            /\ IF \A p \in keys : Matching(p) = 0
               THEN suggested = "web_app"
               ELSE /\ suggested \in keys
                    /\ \A p \in keys : Matching(p) <= Matching(suggested)
                    /\ \A p \in keys :
                          Matching(p) = Matching(suggested) =>
                              PositionOf(suggested) <= PositionOf(p)

C12_Witness ==
    /\ suggested = "ml_project"
    /\ Matching("ml_project") = 1
    /\ Matching("api_backend") = 1
    /\ \E i \in DOMAIN description : description[i] = "M"

(***************************************************************************)
(* BrigadeOrchestrator.create_project                                      *)
(***************************************************************************)
\* The default agents of BrigadeOrchestrator.__init__.
StandardAgents ==
    {"ProjectLeadAI", "TechArchitectAI", "DataEngineerAI", "FrontendAI", "BackendAI",
     "FeatureAI", "PresentationAI", "IntegrationAI", "EvaluationAI", "DevOpsAI",
     "SecurityAI", "FeedbackLoopAI"}

\* The agents the plugins of example_plugin.py register.
PluginAgents == {"DocumentationAI", "CodeReviewAI"}

\* PROFILES[profile].agents
ProfileAgents(profile) ==
    CASE profile = "web_app" ->
            {"ProjectLeadAI", "TechArchitectAI", "FrontendAI",
             "BackendAI", "DevOpsAI", "SecurityAI", "IntegrationAI",
             "EvaluationAI"}
      [] profile = "ml_project" ->
            {"ProjectLeadAI", "TechArchitectAI", "DataEngineerAI",
             "FeatureAI", "BackendAI", "DevOpsAI", "EvaluationAI",
             "IntegrationAI"}
      [] profile = "mobile_app" ->
            {"ProjectLeadAI", "TechArchitectAI", "FrontendAI",
             "BackendAI", "SecurityAI", "IntegrationAI", "DevOpsAI",
             "EvaluationAI"}
      [] profile = "cli_tool" ->
            {"ProjectLeadAI", "TechArchitectAI", "BackendAI",
             "IntegrationAI", "DevOpsAI", "EvaluationAI"}
      [] profile = "microservices" ->
            {"ProjectLeadAI", "TechArchitectAI", "BackendAI",
             "DataEngineerAI", "DevOpsAI", "SecurityAI", "IntegrationAI",
             "EvaluationAI"}
      [] profile = "api_backend" ->
            {"ProjectLeadAI", "TechArchitectAI", "BackendAI",
             "SecurityAI", "DevOpsAI", "IntegrationAI", "EvaluationAI"}
      [] profile = "data_pipeline" ->
            {"ProjectLeadAI", "TechArchitectAI", "DataEngineerAI",
             "DevOpsAI", "IntegrationAI", "EvaluationAI"}
      [] profile = "iot_project" ->
            {"ProjectLeadAI", "TechArchitectAI", "BackendAI",
             "DataEngineerAI", "FrontendAI", "SecurityAI", "DevOpsAI",
             "EvaluationAI"}
      [] profile = "chrome_extension" ->
            {"ProjectLeadAI", "TechArchitectAI", "FrontendAI",
             "BackendAI", "SecurityAI", "IntegrationAI"}
      [] profile = "desktop_app" ->
            {"ProjectLeadAI", "TechArchitectAI", "FrontendAI",
             "BackendAI", "DevOpsAI", "IntegrationAI"}

\* The agents create_project calls, in the order of its phases 2 to 7.
BrigadeSteps ==
    <<"ProjectLeadAI", "TechArchitectAI", "BackendAI", "FrontendAI", "DataEngineerAI",
      "DevOpsAI", "IntegrationAI", "PresentationAI", "SecurityAI", "EvaluationAI">>

\* The calls that are under no test of active_agents.
Unconditional == {"ProjectLeadAI", "TechArchitectAI"}

IsProfile(name) == \E i \in DOMAIN ProfileNames : ProfileNames[i] = name

\* active_agents
ActiveAgents ==
    IF ENHANCED_MODE = "True" THEN ProfileAgents(profile_name) ELSE agents

\* AIProjectBrigade.py neither defines ENHANCED_MODE nor imports the profile,
\* plugin and validation functions: the names are undefined unless the program
\* that imports the module binds them, with ENHANCED_MODE either way.
BrigInit ==
    /\ ENHANCED_MODE \in {"undefined", "True", "False"}
    /\ profile_name \in {ProfileNames[i] : i \in DOMAIN ProfileNames} \cup {"unknown"}
    /\ plugin_registry \in {{}, PluginAgents}
    /\ agents = {}
    /\ bpc = "new"
    /\ called = {}

\* BrigadeOrchestrator(): the default agents and, in enhanced mode, the plugins;
\* the test of an undefined ENHANCED_MODE raises NameError.
Construct ==
    /\ bpc = "new"
    /\ IF ENHANCED_MODE = "undefined"
       THEN bpc' = "raised" /\ UNCHANGED agents
       ELSE /\ agents' = IF ENHANCED_MODE = "True" THEN StandardAgents \cup plugin_registry
                         ELSE StandardAgents
            /\ bpc' = "profile"
    /\ UNCHANGED <<ENHANCED_MODE, profile_name, plugin_registry, called>>
    /\ UNCHANGED <<cacheVars, retryVars, parseVars, orchVars, othersOf_brig>>

\* create_project up to phase 2: get_profile(profile_name) is None for an
\* unknown name, and profile.name then raises.
SelectProfile ==
    /\ bpc = "profile"
    /\ bpc' = IF ENHANCED_MODE = "True" /\ ~IsProfile(profile_name) THEN "raised" ELSE "1"
    /\ UNCHANGED <<ENHANCED_MODE, profile_name, plugin_registry, agents, called>>
    /\ UNCHANGED <<cacheVars, retryVars, parseVars, orchVars, othersOf_brig>>

StepPc(n) ==
    CASE n = 1 -> "1" [] n = 2 -> "2" [] n = 3 -> "3" [] n = 4 -> "4" [] n = 5 -> "5"
      [] n = 6 -> "6" [] n = 7 -> "7" [] n = 8 -> "8" [] n = 9 -> "9" [] n = 10 -> "10"
      [] OTHER -> "plugins"

\* One call of phases 2 to 7: the agent is called when it is unconditional or in
\* active_agents; the call and the save of its answer return (ok) or raise.
BrigadeStep(n, ok) ==
    /\ bpc = StepPc(n)
    /\ LET a == BrigadeSteps[n]
       IN  IF a \in Unconditional \/ a \in ActiveAgents
           THEN /\ called' = called \cup {a}
                /\ bpc' = IF ok THEN StepPc(n + 1) ELSE "raised"
           ELSE /\ ok
                /\ bpc' = StepPc(n + 1)
                /\ UNCHANGED called
    /\ UNCHANGED <<ENHANCED_MODE, profile_name, plugin_registry, agents>>
    /\ UNCHANGED <<cacheVars, retryVars, parseVars, orchVars, othersOf_brig>>

\* In enhanced mode every agent outside the standard list is run, whatever the
\* profile; then the configuration is saved and create_project returns.
RunPlugins ==
    /\ bpc = "plugins"
    /\ called' = IF ENHANCED_MODE = "True" THEN called \cup (agents \ StandardAgents) ELSE called
    /\ bpc' = "returned"
    /\ UNCHANGED <<ENHANCED_MODE, profile_name, plugin_registry, agents>>
    /\ UNCHANGED <<cacheVars, retryVars, parseVars, orchVars, othersOf_brig>>

NextBrig ==
    \/ Construct
    \/ SelectProfile
    \/ \E n \in DOMAIN BrigadeSteps, ok \in BOOLEAN : BrigadeStep(n, ok)
    \/ RunPlugins

InitBrig == BrigInit /\ CacheInit /\ RetryOff /\ ParseOff /\ OrchOff /\ OffExcept_brig

SpecBrig == InitBrig /\ [][NextBrig]_vars

(***************************************************************************)
(* C13: when create_project has run with a profile, the agents it invoked  *)
(* are exactly those of the profile's agents list.                         *)
(***************************************************************************)
C13_ExactlyProfileAgents ==
    (bpc = "returned" /\ ENHANCED_MODE = "True") => called = ProfileAgents(profile_name)

(***************************************************************************)
(* validation.py: ValidationReport, ValidationPipeline, QualityGate        *)
(***************************************************************************)
CheckStatus == {"passed", "failed", "warning", "skipped"}

\* ValidationReport(project_dir)
NewReport == [results |-> <<>>, passed |-> 0, failed |-> 0, warnings |-> 0, skipped |-> 0]

\* What a check returns when it returns no ValidationResult.
NoneResult == [name |-> None, status |-> None]

\* add_result: the result is appended first, then counted by its status; the
\* read of the status of an object that has none raises.
AddResultTo(rep, res) ==
    LET appended == [rep EXCEPT !.results = Append(@, res)]
    IN  IF res = NoneResult THEN [report |-> appended, raised |-> TRUE]
        ELSE [raised |-> FALSE,
              report |-> CASE res.status = "passed" -> [appended EXCEPT !.passed = @ + 1]
                           [] res.status = "failed" -> [appended EXCEPT !.failed = @ + 1]
                           [] res.status = "warning" -> [appended EXCEPT !.warnings = @ + 1]
                           [] OTHER -> [appended EXCEPT !.skipped = @ + 1]]

TotalWithSkipped(rep) == rep.passed + rep.failed + rep.warnings + rep.skipped

\* total = self.passed + self.failed + self.warnings
Total(rep) == rep.passed + rep.failed + rep.warnings

\* score, as the fraction num / den: 100.0 when total is 0, else
\* (passed / total) * 100.
Score(rep) ==
    IF Total(rep) = 0 THEN [num |-> 100, den |-> 1]
    ELSE [num |-> rep.passed * 100, den |-> Total(rep)]

ScoreAtMost(score, min_score) == score.num <= min_score * score.den

\* report.score < self.min_score
ScoreBelow(score, min_score) == score.num < min_score * score.den

GateNames == {"basic", "standard", "strict"}

\* The dictionary QUALITY_GATES.
QUALITY_GATES(name) ==
    CASE name = "basic" ->
            [name |-> "Basic", min_score |-> 50, max_failures |-> 2, max_warnings |-> 10,
             required_checks |-> <<>>]
      [] name = "strict" ->
            [name |-> "Strict", min_score |-> 90, max_failures |-> 0, max_warnings |-> 2,
             required_checks |-> <<"README.md exists", "Code directory",
                                   "Docker configuration", "Test files">>]
      [] name = "standard" ->
            [name |-> "Standard", min_score |-> 70, max_failures |-> 0, max_warnings |-> 5,
             required_checks |-> <<"README.md exists", "Code directory">>]

\* QUALITY_GATES.get(quality_gate, QUALITY_GATES["standard"])
GateFor(name) ==
    IF name \in GateNames THEN QUALITY_GATES(name) ELSE QUALITY_GATES("standard")

\* The inner loop of evaluate for one required check, from result i on: "found",
\* "missing", or "raised" at a result that has no name.
RECURSIVE FindPassed(_, _, _)
FindPassed(rs, req, i) ==
    IF i > Len(rs) THEN "missing"
    ELSE IF rs[i] = NoneResult THEN "raised"
    ELSE IF rs[i].name = req /\ rs[i].status = "passed" THEN "found"
    ELSE FindPassed(rs, req, i + 1)

\* The outer loop, from required check k on.
RECURSIVE RequiredPassed(_, _, _)
RequiredPassed(rs, required_checks, k) ==
    IF k > Len(required_checks) THEN "True"
    ELSE LET found == FindPassed(rs, required_checks[k], 1)
         IN  IF found = "found" THEN RequiredPassed(rs, required_checks, k + 1)
             ELSE IF found = "missing" THEN "False"
             ELSE "raised"

\* QualityGate.evaluate(report)
evaluate(gate, rep) ==
    IF rep.failed > gate.max_failures THEN "False"
    ELSE IF rep.warnings > gate.max_warnings THEN "False"
    ELSE IF ScoreBelow(Score(rep), gate.min_score) THEN "False"
    ELSE RequiredPassed(rep.results, gate.required_checks, 1)

\* ValidationPipeline.__init__: the default post-checks, in order.
DefaultChecks ==
    << [fn |-> "check_readme_exists", named |-> TRUE],
       [fn |-> "check_code_directory", named |-> TRUE],
       [fn |-> "check_dockerfile", named |-> TRUE],
       [fn |-> "check_requirements", named |-> TRUE],
       [fn |-> "check_tests_exist", named |-> TRUE],
       [fn |-> "check_gitignore", named |-> TRUE],
       [fn |-> "check_architecture_doc", named |-> TRUE],
       [fn |-> "check_env_example", named |-> TRUE],
       [fn |-> "check_sensitive_data", named |-> TRUE] >>

\* The callables handed to add_check: a function, which has a __name__, and a
\* callable object such as a functools.partial, which has none.
CustomChecks ==
    { [fn |-> "custom_check", named |-> TRUE],
      [fn |-> "partial", named |-> FALSE] }

MaxCustom == 1

\* Every check a pipeline can hold.
AllChecks == {DefaultChecks[i] : i \in DOMAIN DefaultChecks} \cup CustomChecks

\* ValidationChecks: the name each check gives its result.
ResultName(fn) ==
    CASE fn = "check_readme_exists" -> "README.md exists"
      [] fn = "check_code_directory" -> "Code directory"
      [] fn = "check_dockerfile" -> "Docker configuration"
      [] fn = "check_requirements" -> "Dependency files"
      [] fn = "check_tests_exist" -> "Test files"
      [] fn = "check_gitignore" -> ".gitignore"
      [] fn = "check_architecture_doc" -> "Architecture documentation"
      [] fn = "check_env_example" -> "Environment template"
      [] fn = "check_sensitive_data" -> "Sensitive data check"
      [] OTHER -> "Custom"

\* ValidationChecks: the statuses each check can return, over all directories.
StatusesOf(fn) ==
    CASE fn \in {"check_readme_exists", "check_code_directory"} -> {"passed", "warning", "failed"}
      [] fn = "check_env_example" -> {"passed", "warning", "skipped"}
      [] fn \in {"custom_check", "partial"} -> CheckStatus
      [] OTHER -> {"passed", "warning"}

\* What a call check(project_dir) can do: return a result, and for a check
\* handed to add_check also return nothing or raise.
Outcomes(check) ==
    { [kind |-> "result", res |-> [name |-> ResultName(check.fn), status |-> s]]
        : s \in StatusesOf(check.fn) }
    \cup (IF check \in CustomChecks
          THEN { [kind |-> "none", res |-> NoneResult], [kind |-> "raise", res |-> NoneResult] }
          ELSE {})

MaxResults == 3

\* The results a caller adds to a report of its own.
DirectResults ==
    { [name |-> n, status |-> s]
        : n \in {"README.md exists", "Code directory", "Custom"}, s \in CheckStatus }

ValInit ==
    /\ report = NewReport
    /\ dir_exists \in BOOLEAN
    /\ post_checks = DefaultChecks
    /\ vpc = "idle"
    /\ executed = <<>>
    /\ quality_gate = None
    /\ gate_name = None
    /\ passed_gate = None

\* report.add_result(result) by a caller that builds a report itself.
AddResult(r) ==
    /\ vpc = "idle"
    /\ passed_gate = None
    /\ Len(report.results) < MaxResults
    /\ report' = AddResultTo(report, r).report
    /\ UNCHANGED <<dir_exists, post_checks, vpc, executed, quality_gate, gate_name, passed_gate>>
    /\ UNCHANGED <<cacheVars, retryVars, parseVars, orchVars, othersOf_val>>

\* pipeline.add_check(check_func)
add_check(check_func) ==
    /\ vpc = "idle"
    /\ passed_gate = None
    /\ Len(post_checks) < Len(DefaultChecks) + MaxCustom
    /\ post_checks' = Append(post_checks, check_func)
    /\ UNCHANGED <<report, dir_exists, vpc, executed, quality_gate, gate_name, passed_gate>>
    /\ UNCHANGED <<cacheVars, retryVars, parseVars, orchVars, othersOf_val>>

\* run_post_checks up to its loop: a new report, and the early return with one
\* FAILED result when the directory does not exist.
StartPostChecks ==
    /\ vpc = "idle"
    /\ passed_gate = None
    /\ IF dir_exists
       THEN /\ report' = NewReport
            /\ vpc' = "checks"
       ELSE /\ report' = AddResultTo(NewReport, [name |-> "Project directory",
                                                  status |-> "failed"]).report
            /\ vpc' = "reported"
    /\ UNCHANGED <<dir_exists, post_checks, executed, quality_gate, gate_name, passed_gate>>
    /\ UNCHANGED <<cacheVars, retryVars, parseVars, orchVars, othersOf_val>>

\* One iteration of the loop of run_post_checks: the call, add_result, and the
\* handler, which reads check.__name__ and adds a FAILED result.
RunCheck(outcome) ==
    /\ vpc = "checks"
    /\ LET check == post_checks[Len(executed) + 1]
           added == AddResultTo(report, outcome.res)
           tried == IF outcome.kind = "raise" THEN report ELSE added.report
           caught == outcome.kind = "raise" \/ added.raised
           last == Len(executed) + 1 = Len(post_checks)
       IN  /\ outcome \in Outcomes(check)
           /\ executed' = Append(executed, check.fn)
           /\ IF ~caught
              THEN /\ report' = tried
                   /\ vpc' = IF last THEN "reported" ELSE "checks"
              ELSE IF check.named
              THEN /\ report' = AddResultTo(tried, [name |-> check.fn,
                                                    status |-> "failed"]).report
                   /\ vpc' = IF last THEN "reported" ELSE "checks"
              ELSE /\ report' = tried
                   /\ vpc' = "aborted"
    /\ UNCHANGED <<dir_exists, post_checks, quality_gate, gate_name, passed_gate>>
    /\ UNCHANGED <<cacheVars, retryVars, parseVars, orchVars, othersOf_val>>

\* run_validation after the report: the gate lookup and gate.evaluate(report).
Evaluate(name) ==
    /\ vpc \in {"idle", "reported"}
    /\ passed_gate = None
    /\ quality_gate' = name
    /\ gate_name' = GateFor(name).name
    /\ passed_gate' = evaluate(GateFor(name), report)
    /\ UNCHANGED <<report, dir_exists, post_checks, vpc, executed>>
    /\ UNCHANGED <<cacheVars, retryVars, parseVars, orchVars, othersOf_val>>

NextVal ==
    \/ \E r \in DirectResults : AddResult(r)
    \/ \E c \in CustomChecks : add_check(c)
    \/ StartPostChecks
    \/ \E c \in AllChecks : \E o \in Outcomes(c) : RunCheck(o)
    \/ \E name \in GateNames \cup {"unknown"} : Evaluate(name)

InitVal == ValInit /\ CacheInit /\ RetryOff /\ ParseOff /\ OrchOff /\ OffExcept_val

SpecVal == InitVal /\ [][NextVal]_vars

\* The number of results of a report that have the given status.
Count(rs, st) == Cardinality({i \in DOMAIN rs : rs[i].status = st})

\* C14: after any sequence of add_result calls the score of the report is
\* 100 * passed / (passed + failed + warnings), counted over the results the
\* report holds with skipped results left out of the denominator; it is 100
\* when that denominator is 0, and it lies between 0 and 100 inclusive.
C14_ScoreIsPercentagePassed ==
    LET p == Count(report.results, "passed")
        d == p + Count(report.results, "failed") + Count(report.results, "warning")
        score == Score(report)
    IN  /\ d = 0 => score.num = 100 * score.den
        /\ d > 0 => score.num * d = 100 * p * score.den
        /\ 0 <= score.num
        /\ score.num <= 100 * score.den

\* A report with a skipped result beside a passed and a failed one: score 50.
C14_Witness ==
    /\ vpc = "idle"
    /\ Count(report.results, "skipped") = 1
    /\ Count(report.results, "passed") = 1
    /\ Count(report.results, "failed") = 1
    /\ Score(report).num = 50 * Score(report).den

\* C19: evaluate returns True exactly when failed <= max_failures, warnings <=
\* max_warnings, score >= min_score and every required check has a result of
\* that name with status PASSED; a gate name that QUALITY_GATES does not have
\* evaluates the standard gate.
C19_GateIffFourConditions ==
    passed_gate # None =>
        LET gate == QUALITY_GATES(IF quality_gate \in GateNames THEN quality_gate
                                  ELSE "standard")
            score == Score(report)
        IN  /\ gate_name = gate.name
            /\ (passed_gate = "True") <=>
                   /\ report.failed <= gate.max_failures
                   /\ report.warnings <= gate.max_warnings
                   /\ score.num >= gate.min_score * score.den
                   /\ \A k \in DOMAIN gate.required_checks :
                          \E i \in DOMAIN report.results :
                              /\ report.results[i].name = gate.required_checks[k]
                              /\ report.results[i].status = "passed"

\* A run over an existing directory passes the standard gate under an unknown
\* gate name.
C19_Witness ==
    /\ passed_gate = "True"
    /\ quality_gate = "unknown"
    /\ vpc = "reported"
    /\ report.warnings > 0

\* C20: when the directory exists run_post_checks ends with exactly one result
\* per registered post-check, in registration order, a raising check being
\* recorded as one FAILED result and never aborting the run; when it does not
\* exist the report holds exactly one FAILED result, no check was executed,
\* the score is 0 and no quality gate passes.
C20_OneResultPerCheck ==
    vpc \in {"reported", "aborted"} =>
        IF dir_exists
        THEN /\ vpc = "reported"
             /\ executed = [i \in DOMAIN post_checks |-> post_checks[i].fn]
             /\ Len(report.results) = Len(post_checks)
             /\ \A i \in DOMAIN post_checks :
                    \/ report.results[i].name = ResultName(post_checks[i].fn)
                    \/ report.results[i] = [name |-> post_checks[i].fn, status |-> "failed"]
        ELSE /\ report.results = <<[name |-> "Project directory", status |-> "failed"]>>
             /\ executed = <<>>
             /\ Score(report).num = 0
             /\ \A g \in GateNames : evaluate(QUALITY_GATES(g), report) # "True"

(***************************************************************************)
(* plugins/__init__.py: the plugin registry                                *)
(***************************************************************************)
PluginNames == {"CustomAI", "DocumentationAI", "CodeReviewAI"}

\* The classes a decorator is applied to.
PluginClasses == {"CustomAgent", "OtherAgent"}

MaxRegistrations == 3

\* d.get(name)
DictGet(d, name) ==
    IF \E i \in DOMAIN d : d[i].name = name
    THEN d[CHOOSE i \in DOMAIN d : d[i].name = name].cls
    ELSE None

\* d[name] = cls: an existing key keeps its position, a new key goes last.
DictSet(d, name, cls) ==
    IF \E i \in DOMAIN d : d[i].name = name
    THEN [i \in DOMAIN d |-> IF d[i].name = name THEN [name |-> name, cls |-> cls] ELSE d[i]]
    ELSE Append(d, [name |-> name, cls |-> cls])

\* del d[name]
DictDel(d, name) == SelectSeq(d, LAMBDA item : item.name # name)

\* list(d.keys())
DictKeys(d) == [i \in DOMAIN d |-> d[i].name]

\* get_plugin(name)
get_plugin(name) == DictGet(registry, name)

\* list_plugins()
list_plugins == DictKeys(registry)

\* No map held yet.
NotHeld == [got |-> FALSE, alias |-> FALSE, map |-> <<>>]

ReturnsRegistry(d) == [got |-> TRUE, alias |-> TRUE, map |-> d]

\* _PLUGIN_REGISTRY.copy(): a new dict with the same items.
Copy(d) == [got |-> TRUE, alias |-> FALSE, map |-> d]

PlugInit ==
    /\ registry = <<>>
    /\ held = NotHeld
    /\ registrations = <<>>
    /\ gpc = "loaded"

\* register_agent(name)(cls): the decorator applied to a class.
register_agent(name, cls) ==
    /\ gpc = "loaded"
    /\ Len(registrations) < MaxRegistrations
    /\ registry' = DictSet(registry, name, cls)
    /\ registrations' = Append(registrations, [name |-> name, cls |-> cls])
    /\ UNCHANGED <<held, gpc>>
    /\ UNCHANGED <<cacheVars, retryVars, parseVars, orchVars, othersOf_plug>>

\* get_all_agents()
get_all_agents ==
    /\ gpc = "loaded"
    /\ held' = Copy(registry)
    /\ UNCHANGED <<registry, registrations, gpc>>
    /\ UNCHANGED <<cacheVars, retryVars, parseVars, orchVars, othersOf_plug>>

\* The caller changes the map it holds; a change of an object that is the
\* registry itself is a change of the registry.
MutateHeld(changed) ==
    /\ gpc = "loaded"
    /\ held.got
    /\ changed # (IF held.alias THEN registry ELSE held.map)
    /\ IF held.alias
       THEN /\ registry' = changed
            /\ UNCHANGED held
       ELSE /\ held' = [held EXCEPT !.map = changed]
            /\ UNCHANGED registry
    /\ UNCHANGED <<registrations, gpc>>
    /\ UNCHANGED <<cacheVars, retryVars, parseVars, orchVars, othersOf_plug>>

\* held[name] = cls by the caller
HeldSet(name, cls) ==
    /\ held.got
    /\ MutateHeld(DictSet(IF held.alias THEN registry ELSE held.map, name, cls))

\* del held[name] by the caller
HeldDel(name) ==
    /\ held.got
    /\ MutateHeld(DictDel(IF held.alias THEN registry ELSE held.map, name))

NextPlug ==
    \/ \E name \in PluginNames, cls \in PluginClasses : register_agent(name, cls)
    \/ get_all_agents
    \/ \E name \in PluginNames, cls \in PluginClasses : HeldSet(name, cls)
    \/ \E name \in PluginNames : HeldDel(name)

InitPlug == PlugInit /\ CacheInit /\ RetryOff /\ ParseOff /\ OrchOff /\ OffExcept_plug

SpecPlug == InitPlug /\ [][NextPlug]_vars

\* The class of the last registration under the name, None when there is none.
RECURSIVE LastRegistered(_, _)
LastRegistered(name, i) ==
    IF i = 0 THEN None
    ELSE IF registrations[i].name = name THEN registrations[i].cls
    ELSE LastRegistered(name, i - 1)

\* C15: get_plugin(name) returns the class of the last registration under the
\* name and list_plugins() contains every registered name; a change of the map
\* get_all_agents returned leaves the registry as it was.
C15_RegistryLastWinsAndCopy ==
    /\ [](\A name \in PluginNames :
            /\ get_plugin(name) = LastRegistered(name, Len(registrations))
            /\ (\E i \in DOMAIN registrations : registrations[i].name = name)
                   => \E k \in DOMAIN list_plugins : list_plugins[k] = name)
    /\ [][((\E name \in PluginNames, cls \in PluginClasses : HeldSet(name, cls))
            \/ (\E name \in PluginNames : HeldDel(name)))
              => registry' = registry]_vars

\* A name registered twice with different classes, and a held map the caller
\* has changed so that it differs from the registry.
C15_Witness ==
    /\ \E i, j \in DOMAIN registrations :
           /\ i < j
           /\ registrations[i].name = registrations[j].name
           /\ registrations[i].cls # registrations[j].cls
    /\ held.got
    /\ held.map # registry

(***************************************************************************)
(* C26: a set on a key that the cache holds already replaces only that     *)
(* key's response and timestamp: every other entry the cache held when     *)
(* the set began is in the cache, unchanged, when the set has stored, also *)
(* when the cache held max_size entries.                                   *)
(***************************************************************************)
C26_SetExistingKeyKeepsOthers ==
    [][\A s \in inset :
          (s \notin inset' /\ _hash_key(s.prompt, s.model) \in KeysOf(s.before))
          => \A i \in DOMAIN s.before :
                 s.before[i].key # _hash_key(s.prompt, s.model)
                 => \E j \in DOMAIN cache' : cache'[j] = s.before[i]]_vars

\* The saves of the code agents that returned, made in the given order.
RECURSIVE SavedInOrder(_, _, _)
SavedInOrder(d, order, i) ==
    IF i > Len(order) THEN d
    ELSE IF agent[order[i]].st = "ret"
    THEN SavedInOrder(SaveCodeFiles(d, Parsed(order[i], agent[order[i]].out),
                                    Subdirectory(order[i])).disk, order, i + 1)
    ELSE SavedInOrder(d, order, i + 1)

(***************************************************************************)
(* C27: after a parallel Phase 4 the files on the disk, paths and          *)
(* contents, are those that saving the outputs of the three code agents in *)
(* the order of their submission leaves, whatever the order in which the   *)
(* workers completed: the order of completion does not show.  Stated for   *)
(* outputs whose paths stay inside the project directory.                  *)
(***************************************************************************)
C27_OrderIndependent ==
    (/\ parallel
     /\ opc = "phase5"
     /\ \A a \in CodeAgentSet : agent[a].out # "escape")
    => disk = SavedInOrder([f \in {Structure[i] : i \in DOMAIN Structure} |->
                               [by |-> "ProjectFactory", len |-> 0]], CodeAgents, 1)

(***************************************************************************)
(* plugins/base_plugin.py: PluginBase.run with the default hooks           *)
(***************************************************************************)
Tasks == {"task1", "task2"}

\* What process returns, and the exceptions it raises.
ProcessResults == {"result1", "result2"}
ProcessErrors == {"ValueError", "RuntimeError"}

MaxRuns == 3

\* PluginBase.__init__: the runtime state.
NewPlugin == [status |-> "idle", tasks_completed |-> 0, last_run |-> 0, errors |-> <<>>]

NoRun == [done |-> FALSE, how |-> None, value |-> None, before |-> NewPlugin]

\* pre_process: last_run = datetime.now() is kept as the number of the run.
pre_process(p, n) == [p EXCEPT !.status = "working", !.last_run = n]

\* post_process
post_process(p) == [p EXCEPT !.status = "completed", !.tasks_completed = @ + 1]

on_error_counting(p, task, error) ==
    [p EXCEPT !.status = "error", !.tasks_completed = @ + 1,
              !.errors = Append(@, [task |-> task, error |-> error])]

\* on_error
on_error(p, task, error) ==
    [p EXCEPT !.status = "error",
              !.errors = Append(@, [task |-> task, error |-> error])]

BaseInit ==
    /\ plugin = NewPlugin
    /\ runpc = "idle"
    /\ task_arg = None
    /\ lastRun = NoRun
    /\ runs = 0

\* run(task, context) up to the call of process: pre_process.
RunPreProcess(task) ==
    /\ runpc = "idle"
    /\ runs < MaxRuns
    /\ runs' = runs + 1
    /\ plugin' = pre_process(plugin, runs + 1)
    /\ task_arg' = task
    /\ lastRun' = [NoRun EXCEPT !.before = plugin]
    /\ runpc' = "process"
    /\ UNCHANGED <<cacheVars, retryVars, parseVars, orchVars, othersOf_base>>

\* process returned: post_process, and run returns what it returns.
RunReturns(res) ==
    /\ runpc = "process"
    /\ plugin' = post_process(plugin)
    /\ lastRun' = [lastRun EXCEPT !.done = TRUE, !.how = "ret", !.value = res]
    /\ runpc' = "idle"
    /\ task_arg' = None
    /\ UNCHANGED runs
    /\ UNCHANGED <<cacheVars, retryVars, parseVars, orchVars, othersOf_base>>

\* process raised: on_error, and run raises the exception again.
RunRaises(error) ==
    /\ runpc = "process"
    /\ plugin' = on_error(plugin, task_arg, error)
    /\ lastRun' = [lastRun EXCEPT !.done = TRUE, !.how = "exc", !.value = error]
    /\ runpc' = "idle"
    /\ task_arg' = None
    /\ UNCHANGED runs
    /\ UNCHANGED <<cacheVars, retryVars, parseVars, orchVars, othersOf_base>>

NextBase ==
    \/ \E task \in Tasks : RunPreProcess(task)
    \/ \E res \in ProcessResults : RunReturns(res)
    \/ \E error \in ProcessErrors : RunRaises(error)

InitBase == BaseInit /\ CacheInit /\ RetryOff /\ ParseOff /\ OrchOff /\ OffExcept_base

SpecBase == InitBase /\ [][NextBase]_vars

(***************************************************************************)
(* C21: while process runs the status is "working"; a run in which process *)
(* returned leaves the status "completed", tasks_completed one more than   *)
(* before and the errors as they were, and returns the result of process;  *)
(* a run in which process raised leaves the status "error", one more       *)
(* record in errors and tasks_completed as it was, and raises the same     *)
(* exception.  Between runs tasks_completed + len(errors) is the number of *)
(* runs.                                                                   *)
(***************************************************************************)
C21_RunLifecycle ==
    /\ runpc = "process" => plugin.status = "working"
    /\ (lastRun.done /\ lastRun.how = "ret") =>
          /\ plugin.status = "completed"
          /\ plugin.tasks_completed = lastRun.before.tasks_completed + 1
          /\ plugin.errors = lastRun.before.errors
          /\ lastRun.value \in ProcessResults
    /\ (lastRun.done /\ lastRun.how = "exc") =>
          /\ plugin.status = "error"
          /\ Len(plugin.errors) = Len(lastRun.before.errors) + 1
          /\ SubSeq(plugin.errors, 1, Len(lastRun.before.errors)) = lastRun.before.errors
          /\ plugin.tasks_completed = lastRun.before.tasks_completed
          /\ lastRun.value \in ProcessErrors
    /\ runpc = "idle" => plugin.tasks_completed + Len(plugin.errors) = runs

\* A failing run after a successful one.
C21_Witness ==
    /\ lastRun.done
    /\ lastRun.how = "exc"
    /\ plugin.tasks_completed = 1
    /\ Len(plugin.errors) = 1
    /\ runs = 2

(***************************************************************************)
(* plugins/__init__.py: register_hook and run_hooks                        *)
(***************************************************************************)
HookNames == {"pre_generation", "post_generation"}

\* The callables given to register_hook: the two functions of example_plugin
\* and a callable object such as a functools.partial, which has no __name__.
HookFuncs ==
    { [fn |-> "validate_project_name", named |-> TRUE],
      [fn |-> "add_timestamp_to_readme", named |-> TRUE],
      [fn |-> "partial", named |-> FALSE] }

MaxHooks == 3

\* What a call hook(context) can do: return its value or raise.
HookOutcomes(func) ==
    { [how |-> "ret", value |-> func.fn], [how |-> "exc", value |-> "ValueError"] }

\* The number of functions registered under all names.
RECURSIVE Registered(_)
Registered(names) ==
    IF names = {} THEN 0
    ELSE LET h == CHOOSE h \in names : TRUE
         IN  Len(HOOKS[h]) + Registered(names \ {h})

\* _HOOKS.get(hook_name, [])
HooksFor(name) == IF name \in DOMAIN HOOKS THEN HOOKS[name] ELSE <<>>

\* The handler of run_hooks evaluates hook.__name__ for its message.
HandlerCompletes(func) == func.named

HookInit ==
    /\ HOOKS = [h \in HookNames |-> <<>>]
    /\ hpc = "idle"
    /\ hook_arg = None
    /\ hook_results = <<>>
    /\ hook_calls = <<>>
    /\ hook_raised = None

\* register_hook(hook_name)(func): the function is appended, then the message
\* of logger.info reads func.__name__, which raises when there is none.
register_hook(name, func) ==
    /\ hpc \in {"idle", "returned", "escaped"}
    /\ Registered(HookNames) < MaxHooks
    /\ HOOKS' = [HOOKS EXCEPT ![name] = Append(@, func)]
    /\ hook_raised' = IF func.named THEN None ELSE "AttributeError"
    /\ hpc' = "idle"
    /\ hook_arg' = None
    /\ hook_results' = <<>>
    /\ hook_calls' = <<>>
    /\ UNCHANGED <<cacheVars, retryVars, parseVars, orchVars, othersOf_hook>>

\* run_hooks(hook_name, context) up to its loop.
RunHooksStart(name) ==
    /\ hpc \in {"idle", "returned", "escaped"}
    /\ hook_arg' = name
    /\ hook_results' = <<>>
    /\ hook_calls' = <<>>
    /\ hook_raised' = None
    /\ hpc' = IF HooksFor(name) = <<>> THEN "returned" ELSE "loop"
    /\ UNCHANGED HOOKS
    /\ UNCHANGED <<cacheVars, retryVars, parseVars, orchVars, othersOf_hook>>

\* One iteration of the loop of run_hooks: the call, results.append, and the
\* handler with its message.
CallHook(outcome) ==
    /\ hpc = "loop"
    /\ LET hook == HooksFor(hook_arg)[Len(hook_calls) + 1]
           last == Len(hook_calls) + 1 = Len(HooksFor(hook_arg))
       IN  /\ outcome \in HookOutcomes(hook)
           /\ hook_calls' = Append(hook_calls, [fn |-> hook.fn, how |-> outcome.how,
                                                value |-> outcome.value])
           /\ IF outcome.how = "ret"
              THEN /\ hook_results' = Append(hook_results, outcome.value)
                   /\ hpc' = IF last THEN "returned" ELSE "loop"
                   /\ UNCHANGED hook_raised
              ELSE IF HandlerCompletes(hook)
              THEN /\ hpc' = IF last THEN "returned" ELSE "loop"
                   /\ UNCHANGED <<hook_results, hook_raised>>
              ELSE /\ hpc' = "escaped"
                   /\ hook_raised' = "AttributeError"
                   /\ UNCHANGED hook_results
    /\ UNCHANGED <<HOOKS, hook_arg>>
    /\ UNCHANGED <<cacheVars, retryVars, parseVars, orchVars, othersOf_hook>>

NextHook ==
    \/ \E name \in HookNames, func \in HookFuncs : register_hook(name, func)
    \/ \E name \in HookNames \cup {"pre_agent"} : RunHooksStart(name)
    \/ \E func \in HookFuncs : \E outcome \in HookOutcomes(func) : CallHook(outcome)

InitHook == HookInit /\ CacheInit /\ RetryOff /\ ParseOff /\ OrchOff /\ OffExcept_hook

SpecHook == InitHook /\ [][NextHook]_vars

(***************************************************************************)
(* C22: a run_hooks that has ended has returned, no exception of a hook    *)
(* reached its caller; it called every hook registered for the name once,  *)
(* in registration order, the hooks after one that raised too; the list it *)
(* returned holds the values of the hooks that did not raise, in order.    *)
(***************************************************************************)
C22_HooksAllRunNoneEscapes ==
    hpc \in {"returned", "escaped"} =>
        /\ hpc = "returned"
        /\ hook_raised = None
        /\ Len(hook_calls) = Len(HooksFor(hook_arg))
        /\ \A i \in DOMAIN hook_calls : hook_calls[i].fn = HooksFor(hook_arg)[i].fn
        /\ hook_results = [i \in 1 .. Len(SelectSeq(hook_calls, LAMBDA c : c.how = "ret")) |->
                              SelectSeq(hook_calls, LAMBDA c : c.how = "ret")[i].value]

(***************************************************************************)
(* repair.py: CodeHealer                                                   *)
(***************************************************************************)
\* A text is the sequence of its lines, and a line is told apart by what it
\* is: a statement, a line with a syntax error, a blank line, a fence with a
\* language after it, a bare fence.
LineKinds == {"stmt", "broken", "blank", "fence_open", "fence"}

\* os.path.splitext(file_path)[1], before lower()
Extensions == {".py", ".PY", ".js", ""}

\* str.lower on the extensions of the model.
LowerExt(ext) == IF ext = ".PY" THEN ".py" ELSE ext

\* ast.parse(content) returns: a fence is no Python, the empty text is.
Parses(text) == \A i \in DOMAIN text : text[i] \in {"stmt", "blank"}

\* check_syntax(file_path, content)[0]
check_syntax(ext, text) == IF LowerExt(ext) = ".py" THEN Parses(text) ELSE TRUE

\* str.strip() of a text: the blank lines at both ends go.
RECURSIVE StripBlank(_)
StripBlank(text) ==
    IF text = <<>> THEN text
    ELSE IF text[1] = "blank" THEN StripBlank(Tail(text))
    ELSE IF text[Len(text)] = "blank" THEN StripBlank(SubSeq(text, 1, Len(text) - 1))
    ELSE text

\* line.startswith(fence)
IsFenceLine(line) == line \in {"fence_open", "fence"}

\* The cleaning of heal_code: a text that starts with a fence, once stripped,
\* loses its first line and a last line that is a bare fence; any other text
\* is kept as it came.
CleanMarkdown(text) ==
    LET stripped == StripBlank(text)
    IN  IF stripped # <<>> /\ IsFenceLine(stripped[1])
        THEN LET rest == Tail(stripped)
             IN  IF rest # <<>> /\ rest[Len(rest)] = "fence"
                 THEN SubSeq(rest, 1, Len(rest) - 1)
                 ELSE rest
        ELSE text

\* What the remote model answers: a text, no content at all, or an exception
\* of the call.
Answers ==
    { <<"stmt">>, <<"broken">>, <<>>, <<"fence_open", "stmt", "fence">>,
      <<"fence_open", "broken", "fence">>, <<"fence", "stmt">>,
      <<"blank", "fence_open", "stmt", "fence", "blank">>,
      <<"fence_open", "stmt", "fence", "stmt">>, <<"blank", "stmt">> }

NoContent == <<"None">>
CallRaised == <<"APIError">>

\* heal_code(file_path, content, error_message): the fixed text, or the content
\* when the call raised or the answer has no content to strip.
heal_code(content_arg, answer) ==
    IF answer = CallRaised \/ answer = NoContent THEN content_arg
    ELSE CleanMarkdown(answer)

AnyFixAccepted(ext, fixed_content) == TRUE

\* worked, new_error = self.check_syntax(file_path, fixed_content)
FixAccepted(ext, fixed_content) == check_syntax(ext, fixed_content)

\* The contents process_file is given.
Contents ==
    { <<"stmt">>, <<"broken">>, <<"stmt", "broken">>, <<"fence_open", "stmt", "fence">>, <<>> }

MaxFiles == 3

HealInit ==
    /\ heal_file = [ext |-> "", content |-> <<>>]
    /\ heal_pc = "idle"
    /\ heal_out = <<>>
    /\ heal_llm = 0
    /\ heal_count = 0

\* process_file(file_path, content) up to heal_code: content that is valid is
\* returned at once.
ProcessFile(ext, content_arg) ==
    /\ heal_pc \in {"idle", "returned"}
    /\ heal_count < MaxFiles
    /\ heal_count' = heal_count + 1
    /\ heal_file' = [ext |-> ext, content |-> content_arg]
    /\ heal_llm' = 0
    /\ IF check_syntax(ext, content_arg)
       THEN /\ heal_out' = content_arg
            /\ heal_pc' = "returned"
       ELSE /\ heal_out' = <<>>
            /\ heal_pc' = "heal"
    /\ UNCHANGED <<cacheVars, retryVars, parseVars, orchVars, othersOf_heal>>

\* The rest of process_file: heal_code with its call of the remote model, the
\* check of the fix, and the return.
HealAndVerify(answer) ==
    /\ heal_pc = "heal"
    /\ heal_llm' = heal_llm + 1
    /\ LET fixed_content == heal_code(heal_file.content, answer)
       IN  heal_out' = IF FixAccepted(heal_file.ext, fixed_content)
                       THEN fixed_content
                       ELSE heal_file.content
    /\ heal_pc' = "returned"
    /\ UNCHANGED <<heal_file, heal_count>>
    /\ UNCHANGED <<cacheVars, retryVars, parseVars, orchVars, othersOf_heal>>

NextHeal ==
    \/ \E ext \in Extensions, content_arg \in Contents : ProcessFile(ext, content_arg)
    \/ \E answer \in Answers \cup {NoContent, CallRaised} : HealAndVerify(answer)

InitHeal == HealInit /\ CacheInit /\ RetryOff /\ ParseOff /\ OrchOff /\ OffExcept_heal

SpecHeal == InitHeal /\ [][NextHeal]_vars

(***************************************************************************)
(* C23: process_file returns the content it was given or a content that    *)
(* passes check_syntax; content that is valid, and that of any file that   *)
(* is no .py file, comes back unchanged without a call of the remote       *)
(* model; invalid content makes at most one such call, and what is         *)
(* returned in place of the content passes check_syntax.                   *)
(***************************************************************************)
C23_HealedOrOriginal ==
    heal_pc = "returned" =>
        /\ heal_out = heal_file.content \/ check_syntax(heal_file.ext, heal_out)
        /\ (LowerExt(heal_file.ext) # ".py" \/ Parses(heal_file.content)) =>
               heal_out = heal_file.content /\ heal_llm = 0
        /\ heal_llm <= 1
        /\ heal_out # heal_file.content => heal_llm = 1 /\ Parses(heal_out)

\* A fenced fix of a broken Python file is returned without its fences.
C23_Witness ==
    /\ heal_pc = "returned"
    /\ heal_file = [ext |-> ".py", content |-> <<"broken">>]
    /\ heal_out = <<"stmt">>
    /\ heal_llm = 1

(***************************************************************************)
(* AIProjectBrigade.py: BrigadeOrchestrator._save_code_files and the healer *)
(***************************************************************************)
\* The body of class BrigadeOrchestrator defines _save_code_files twice: first
\* with the call of the healer, then without it.
SaveDefinitions == <<"healing", "plain">>

\* The method the name is bound to once the class body has run: the last one.
BoundSave == SaveDefinitions[Len(SaveDefinitions)]

\* CodeHealer.process_file(file_path, content), given what the remote model
\* answers if it is asked.
process_file(ext, content_arg, answer) ==
    IF check_syntax(ext, content_arg) THEN content_arg
    ELSE LET fixed_content == heal_code(content_arg, answer)
         IN  IF FixAccepted(ext, fixed_content) THEN fixed_content ELSE content_arg

\* The keys of code_dict, with the extension of each.
CodePaths == { [name |-> "main.py", ext |-> ".py"], [name |-> "app.js", ext |-> ".js"] }

\* isinstance(content, str) and len(content) > 10, for the texts of the model:
\* only the empty text is too short.
LongEnough(text) == text # <<>>

\* The cleaning of _save_code_files: that of heal_code, but a text that starts
\* with a fence is written stripped.
CleanContent(text) == CleanMarkdown(text)

MaxItems == 2

\* code_dict: its keys are distinct.
CodeDicts ==
    { <<>> } \cup { <<[path |-> p, content |-> c]>> : p \in CodePaths, c \in Contents }
    \cup { <<[path |-> p, content |-> c], [path |-> q, content |-> d]>> :
              p \in {x \in CodePaths : x.ext = ".py"}, q \in {x \in CodePaths : x.ext = ".js"},
              c \in Contents, d \in Contents }

SaveInit ==
    /\ V4_MODE \in BOOLEAN
    /\ save_pc = "idle"
    /\ code_items = <<>>
    /\ written = <<>>
    /\ save_created = <<>>
    /\ healer_calls = {}

\* self._save_code_files(project_dir, code_dict, subdirectory) is called.
SaveStart(code_dict) ==
    /\ save_pc = "idle"
    /\ Len(code_dict) <= MaxItems
    /\ code_items' = code_dict
    /\ save_pc' = IF code_dict = <<>> THEN "returned" ELSE "loop"
    /\ UNCHANGED <<V4_MODE, written, save_created, healer_calls>>
    /\ UNCHANGED <<cacheVars, retryVars, parseVars, orchVars, othersOf_save>>

\* One iteration of the loop of the method the name is bound to.
SaveItem(answer) ==
    /\ save_pc = "loop"
    /\ LET item == Head(code_items)
           cleaned == CleanContent(item.content)
           heals == BoundSave = "healing" /\ V4_MODE
           final == IF heals THEN process_file(item.path.ext, cleaned, answer) ELSE cleaned
       IN  IF LongEnough(item.content)
           THEN /\ written' = [f \in DOMAIN written \cup {item.path.name} |->
                                  IF f = item.path.name THEN final ELSE written[f]]
                /\ save_created' = Append(save_created, item.path.name)
                /\ healer_calls' = IF heals
                                   THEN healer_calls \cup {[path |-> item.path.name,
                                                            given |-> cleaned, out |-> final]}
                                   ELSE healer_calls
           ELSE UNCHANGED <<written, save_created, healer_calls>>
    /\ code_items' = Tail(code_items)
    /\ save_pc' = IF Len(code_items) = 1 THEN "returned" ELSE "loop"
    /\ UNCHANGED V4_MODE
    /\ UNCHANGED <<cacheVars, retryVars, parseVars, orchVars, othersOf_save>>

NextSave ==
    \/ \E code_dict \in CodeDicts : SaveStart(code_dict)
    \/ \E answer \in Answers \cup {NoContent, CallRaised} : SaveItem(answer)

InitSave == SaveInit /\ CacheInit /\ RetryOff /\ ParseOff /\ OrchOff /\ OffExcept_save

SpecSave == InitSave /\ [][NextSave]_vars

(***************************************************************************)
(* C24: in V4 mode every file _save_code_files has written was passed      *)
(* through healer.process_file first, and what was written is what the     *)
(* healer returned.                                                        *)
(***************************************************************************)
C24_WrittenContentIsHealed ==
    V4_MODE =>
        \A f \in DOMAIN written :
            \E call \in healer_calls : call.path = f /\ call.out = written[f]

(***************************************************************************)
(* UltraContextAgent.py: ContextBuilder.build_chunks                       *)
(***************************************************************************)
\* The files add_file can add, by the lengths of path, language and content.
FileContexts ==
    [path_len : {4}, lang_len : {4, 6}, content_len : {0, 3, 60}]

\* len(file_ctx.to_context_string()): the header "# File: path (language)"
\* with its newline, then the content between two fence lines.
ContextLength(f) == 21 + f.path_len + 2 * f.lang_len + f.content_len

\* estimate_tokens(text), on the length of the text
estimate_tokens(length) == length \div 4

\* chunk_size as the callers give it.
ChunkSizes == {0, 10, 20, 24}

MaxContextFiles == 3

\* f"chunk_{chunk_num:03d}": the digits, padded with zeros to three.
RECURSIVE Digits(_)
Digits(n) == IF n < 10 THEN <<n>> ELSE Append(Digits(n \div 10), n % 10)

ChunkId(n) ==
    LET d == Digits(n)
    IN  <<"chunk_">> \o (IF Len(d) = 1 THEN <<0, 0>> ELSE IF Len(d) = 2 THEN <<0>> ELSE <<>>) \o d

NoCurrent == [content_len |-> 0, files |-> <<>>, tokens |-> 0]

FlushesWithoutContent(current, file_tokens, chunk_size) ==
    current.tokens + file_tokens > chunk_size

\* current_tokens + file_tokens > chunk_size and current_content
Flushes(current, file_tokens, chunk_size) ==
    current.tokens + file_tokens > chunk_size /\ current.content_len > 0

\* ContextChunk(chunk_id, content, source_files, token_estimate) of the
\* current content.
ChunkOf(current, n) ==
    [chunk_id |-> ChunkId(n), content_len |-> current.content_len,
     source_files |-> current.files, token_estimate |-> current.tokens]

CtxInit ==
    /\ cb_files = <<>>
    /\ cb_chunks = <<>>
    /\ cb_pc = "idle"
    /\ cb_size = 0
    /\ cb_current = NoCurrent
    /\ cb_chunk_num = 0
    /\ cb_index = 0

\* add_file(file_path) of a file that can be read.
add_file(f) ==
    /\ cb_pc = "idle"
    /\ Len(cb_files) < MaxContextFiles
    /\ cb_files' = Append(cb_files, f)
    /\ UNCHANGED <<cb_chunks, cb_pc, cb_size, cb_current, cb_chunk_num, cb_index>>
    /\ UNCHANGED <<cacheVars, retryVars, parseVars, orchVars, othersOf_ctx>>

\* build_chunks(chunk_size) up to its loop.
BuildChunksStart(chunk_size) ==
    /\ cb_pc = "idle"
    /\ cb_size' = chunk_size
    /\ cb_chunks' = <<>>
    /\ cb_current' = NoCurrent
    /\ cb_chunk_num' = 0
    /\ cb_index' = 0
    /\ cb_pc' = "loop"
    /\ UNCHANGED cb_files
    /\ UNCHANGED <<cacheVars, retryVars, parseVars, orchVars, othersOf_ctx>>

\* One iteration of the loop: the current chunk is saved when the file would
\* take it over chunk_size, then the file joins the current chunk.
BuildChunksFile ==
    /\ cb_pc = "loop"
    /\ cb_index < Len(cb_files)
    /\ LET file_ctx == cb_files[cb_index + 1]
           file_tokens == estimate_tokens(ContextLength(file_ctx))
           flush == Flushes(cb_current, file_tokens, cb_size)
           base == IF flush THEN NoCurrent ELSE cb_current
       IN  /\ cb_chunks' = IF flush THEN Append(cb_chunks, ChunkOf(cb_current, cb_chunk_num))
                           ELSE cb_chunks
           /\ cb_chunk_num' = IF flush THEN cb_chunk_num + 1 ELSE cb_chunk_num
           /\ cb_current' = [content_len |-> base.content_len + ContextLength(file_ctx) + 1,
                             files |-> Append(base.files, cb_index + 1),
                             tokens |-> base.tokens + file_tokens]
    /\ cb_index' = cb_index + 1
    /\ UNCHANGED <<cb_files, cb_pc, cb_size>>
    /\ UNCHANGED <<cacheVars, retryVars, parseVars, orchVars, othersOf_ctx>>

\* After the loop: the remaining content is saved, and build_chunks returns.
BuildChunksEnd ==
    /\ cb_pc = "loop"
    /\ cb_index = Len(cb_files)
    /\ cb_chunks' = IF cb_current.content_len > 0
                    THEN Append(cb_chunks, ChunkOf(cb_current, cb_chunk_num))
                    ELSE cb_chunks
    /\ cb_pc' = "returned"
    /\ UNCHANGED <<cb_files, cb_size, cb_current, cb_chunk_num, cb_index>>
    /\ UNCHANGED <<cacheVars, retryVars, parseVars, orchVars, othersOf_ctx>>

NextCtx ==
    \/ \E f \in FileContexts : add_file(f)
    \/ \E chunk_size \in ChunkSizes : BuildChunksStart(chunk_size)
    \/ BuildChunksFile
    \/ BuildChunksEnd

InitCtx == CtxInit /\ CacheInit /\ RetryOff /\ ParseOff /\ OrchOff /\ OffExcept_ctx

SpecCtx == InitCtx /\ [][NextCtx]_vars

\* The source_files of the chunks from chunk k on, one after the other.
RECURSIVE FilesOfChunks(_)
FilesOfChunks(k) ==
    IF k > Len(cb_chunks) THEN <<>> ELSE cb_chunks[k].source_files \o FilesOfChunks(k + 1)

\* The sum of the estimates of the files of a chunk, from its file j on.
RECURSIVE SumEstimates(_, _)
SumEstimates(source_files, j) ==
    IF j > Len(source_files) THEN 0
    ELSE (ContextLength(cb_files[source_files[j]]) \div 4) + SumEstimates(source_files, j + 1)

(***************************************************************************)
(* C25: the chunks build_chunks returns partition the files: their         *)
(* source_files, one after the other, are the files in their order, each   *)
(* once; no chunk is empty; the chunk ids are chunk_000, chunk_001, ... in *)
(* order; the token_estimate of a chunk is the sum of the estimates of its *)
(* files; a chunk over chunk_size holds a single file.                     *)
(***************************************************************************)
C25_ChunksPartitionFiles ==
    cb_pc = "returned" =>
        /\ FilesOfChunks(1) = [i \in 1 .. Len(cb_files) |-> i]
        /\ \A k \in DOMAIN cb_chunks :
              /\ cb_chunks[k].source_files # <<>>
              /\ cb_chunks[k].chunk_id =
                     <<"chunk_", (k - 1) \div 100, ((k - 1) \div 10) % 10, (k - 1) % 10>>
              /\ cb_chunks[k].token_estimate = SumEstimates(cb_chunks[k].source_files, 1)
              /\ cb_chunks[k].token_estimate > cb_size => Len(cb_chunks[k].source_files) = 1

\* Three files in two chunks: two that fit together, and one over chunk_size
\* alone.
C25_Witness ==
    /\ cb_pc = "returned"
    /\ Len(cb_files) = 3
    /\ Len(cb_chunks) = 2
    /\ \E k \in DOMAIN cb_chunks : Len(cb_chunks[k].source_files) = 2
    /\ \E k \in DOMAIN cb_chunks : cb_chunks[k].token_estimate > cb_size

=============================================================================
